---- MODULE Spec2Model ----
(***************************************************************************)
(* Elev8 flight controller, Firmware-C/elev8-main.cpp: the 250 Hz main     *)
(* loop (mode arbitration, arm/disarm gestures, cascade PIDs, X mixer,     *)
(* clamp, servo dispatch) and the ground-station serial link (display      *)
(* mode, motor test, calibration resets, preferences query/upload).        *)
(*                                                                         *)
(* One Tick step is one iteration of while(1) in main().  A state with     *)
(* pc = "loop" is the end of a tick (the loop sits in waitcnt); the only   *)
(* other positions are the two blocking S4_Get(0) reads of the ESC         *)
(* throttle calibration.  The build modelled is the V3 board               *)
(* (__PINS_V3_H__ defined, FORCE_SBUS and __V2_PINS_H__ not defined).      *)
(*                                                                         *)
(* Code that lives outside elev8-main.cpp (the IntPID class, the PREFS     *)
(* layout and checksum, the persistence routines, the header constants)    *)
(* is modelled from the written specification and marked so in the map.    *)
(***************************************************************************)
EXTENDS Integers, Sequences, FiniteSets, TLC

(***************************************************************************)
(* Bounds of the model                                                     *)
(***************************************************************************)
\* Ticks explored by the flight specification.
MaxTicks == 5

(***************************************************************************)
(* Program constants                                                       *)
(***************************************************************************)
AltiThrottleDeadband == 100
GestureThreshold == 750
IntegrateThreshold == -800
GearThreshold == 512
ThrottleCenter == 12000
NudgeThrottle == 9500
PulseTicks == 500
CompassHoldTicks == 250
AccelAssistZFactor == 32
GyroRPFilter == 192
GyroYawFilter == 192
NumChannels == 8

\* Header constants (constants.h, elev8-main.h).
Const_UpdateRate == 250
Const_OneG == 4096
MODE_None == 0
MODE_SensorTest == 2
MODE_MotorTest == 3

\* Flight modes, in the order of LEDColorTable (indexed by FlightMode & 3).
FlightMode_Assisted == 0
FlightMode_Automatic == 1
FlightMode_Manual == 2
FlightMode_CalibrateCompass == 3

\* Motor[] indices and the pin each is dispatched to.
OUT_FL == 0
OUT_FR == 1
OUT_BR == 2
OUT_BL == 3
Motors == 0..3

(***************************************************************************)
(* C integer arithmetic                                                    *)
(***************************************************************************)
\* C's '/': truncation toward zero.
CDiv(a, b) ==
  IF a >= 0 THEN a \div b ELSE -((-a) \div b)

\* Variant: a shift that rounds toward zero, as '/' does.
Shr_Truncating(a, n) ==
  CDiv(a, 2 ^ n)

\* C's '>>' on a signed int: arithmetic shift, i.e. floor division by 2^n.
Shr(a, n) ==
  a \div (2 ^ n)

clamp(v, lo, hi) ==
  LET v1 == IF v < lo THEN lo ELSE v
  IN  IF v1 > hi THEN hi ELSE v1

abs(v) ==
  IF v < 0 THEN -v ELSE v

\* A value stored into a 'short'.
S16(u) ==
  LET m == u % 65536
  IN  IF m >= 32768 THEN m - 65536 ELSE m

\* (char) of an int as the byte it stores: -1 becomes 0xFF.
ToByte(v) ==
  v % 256

(***************************************************************************)
(* Preferences: the record, its byte image and its checksum                *)
(***************************************************************************)
Channels == 0..(NumChannels - 1)

PrefScalars ==
  << "MinThrottle", "MinThrottleArmed", "MaxThrottle", "CenterThrottle",
     "ArmDelay", "DisarmDelay", "DisableMotors", "UseBattMon",
     "LowVoltageAlarm", "LowVoltageAlarmThreshold", "VoltageOffset",
     "ThrustCorrectionScale", "AccelCorrectionFilter", "UseSBUS" >>

PrefArrays ==
  << "ChannelIndex", "ChannelCenter", "ChannelScale" >>

NScalars == Len(PrefScalars)

\* Number of 16-bit words before the trailing checksum word.
PrefWords == NScalars + Len(PrefArrays) * NumChannels

\* sizeof(Prefs)
PrefsSize == 2 * (PrefWords + 1)

\* Word k (1-based) of a preferences record, in layout order.
PrefWord(p, k) ==
  IF k <= NScalars THEN p[PrefScalars[k]]
  ELSE IF k <= PrefWords
       THEN p[PrefArrays[((k - NScalars - 1) \div NumChannels) + 1]]
             [(k - NScalars - 1) % NumChannels]
       ELSE p.Checksum

\* The record as the bytes memcpy and Comm.AddPacketData see (little endian).
PrefsBytes(p) ==
  [i \in 1..PrefsSize |->
     LET w == PrefWord(p, (i + 1) \div 2) % 65536
     IN  IF i % 2 = 1 THEN w % 256 ELSE w \div 256]

\* Word k of a byte image, read back as a signed short.
WordAt(b, k) ==
  S16(b[2 * k - 1] + 256 * b[2 * k])

\* The record a byte image denotes.
BytesPrefs(b) ==
  [f \in ({PrefScalars[k] : k \in 1..NScalars}
          \cup {PrefArrays[k] : k \in 1..Len(PrefArrays)}
          \cup {"Checksum"}) |->
     IF f = "Checksum" THEN WordAt(b, PrefWords + 1)
     ELSE IF \E k \in 1..NScalars : PrefScalars[k] = f
          THEN WordAt(b, CHOOSE k \in 1..NScalars : PrefScalars[k] = f)
          ELSE LET a == CHOOSE k \in 1..Len(PrefArrays) : PrefArrays[k] = f
               IN  [c \in Channels |->
                      WordAt(b, NScalars + (a - 1) * NumChannels + c + 1)]]

\* Position-weighted sum of the bytes lo..hi, modulo 2^16.
RECURSIVE ChecksumRange(_, _, _)
ChecksumRange(b, lo, hi) ==
  IF lo = hi THEN lo * b[lo]
  ELSE LET mid == (lo + hi) \div 2
       IN  (ChecksumRange(b, lo, mid) + ChecksumRange(b, mid + 1, hi)) % 65536

\* Checksum over all the bytes that precede the checksum field.
ChecksumOfBytes(b) ==
  S16((21845 + ChecksumRange(b, 1, 2 * PrefWords)) % 65536)

Prefs_CalculateChecksum(p) ==
  ChecksumOfBytes(PrefsBytes(p))

WithChecksum(p) ==
  [p EXCEPT !.Checksum = Prefs_CalculateChecksum(p)]

(***************************************************************************)
(* IntPID: the integer PID controller                                      *)
(***************************************************************************)
PIDNames == {"Roll", "Pitch", "Yaw", "Alt", "Ascent"}

\* Variant: the yaw controller set up with a wider output limit.
PIDInit_WideYaw ==
  [Roll   |-> [P |-> 8000, I |-> 0, D |-> 20000 * Const_UpdateRate, Q |-> 12,
               MaxOutput |-> 3000, PIMax |-> 100, MaxIntegral |-> 1900,
               DFilter |-> 128, IError |-> 0, LastInput |-> 0, DError |-> 0],
   Pitch  |-> [P |-> 8000, I |-> 0, D |-> 20000 * Const_UpdateRate, Q |-> 12,
               MaxOutput |-> 3000, PIMax |-> 100, MaxIntegral |-> 1900,
               DFilter |-> 128, IError |-> 0, LastInput |-> 0, DError |-> 0],
   Yaw    |-> [P |-> 15000, I |-> 200 * Const_UpdateRate,
               D |-> 10000 * Const_UpdateRate, Q |-> 12,
               MaxOutput |-> 6000, PIMax |-> 100, MaxIntegral |-> 2000,
               DFilter |-> 192, IError |-> 0, LastInput |-> 0, DError |-> 0],
   Alt    |-> [P |-> 600, I |-> 500 * Const_UpdateRate, D |-> 0, Q |-> 14,
               MaxOutput |-> 5000, PIMax |-> 1000, MaxIntegral |-> 4000,
               DFilter |-> 256, IError |-> 0, LastInput |-> 0, DError |-> 0],
   Ascent |-> [P |-> 1100, I |-> 0, D |-> 0, Q |-> 12,
               MaxOutput |-> 4000, PIMax |-> 500, MaxIntegral |-> 2000,
               DFilter |-> 256, IError |-> 0, LastInput |-> 0, DError |-> 0]]

\* Init, SetPrecision, SetMaxOutput, SetPIMax, SetMaxIntegral,
\* SetDervativeFilter as Initialize() calls them.
PIDInit ==
  [Roll   |-> [P |-> 8000, I |-> 0, D |-> 20000 * Const_UpdateRate, Q |-> 12,
               MaxOutput |-> 3000, PIMax |-> 100, MaxIntegral |-> 1900,
               DFilter |-> 128, IError |-> 0, LastInput |-> 0, DError |-> 0],
   Pitch  |-> [P |-> 8000, I |-> 0, D |-> 20000 * Const_UpdateRate, Q |-> 12,
               MaxOutput |-> 3000, PIMax |-> 100, MaxIntegral |-> 1900,
               DFilter |-> 128, IError |-> 0, LastInput |-> 0, DError |-> 0],
   Yaw    |-> [P |-> 15000, I |-> 200 * Const_UpdateRate,
               D |-> 10000 * Const_UpdateRate, Q |-> 12,
               MaxOutput |-> 5000, PIMax |-> 100, MaxIntegral |-> 2000,
               DFilter |-> 192, IError |-> 0, LastInput |-> 0, DError |-> 0],
   Alt    |-> [P |-> 600, I |-> 500 * Const_UpdateRate, D |-> 0, Q |-> 14,
               MaxOutput |-> 5000, PIMax |-> 1000, MaxIntegral |-> 4000,
               DFilter |-> 256, IError |-> 0, LastInput |-> 0, DError |-> 0],
   Ascent |-> [P |-> 1100, I |-> 0, D |-> 0, Q |-> 12,
               MaxOutput |-> 4000, PIMax |-> 500, MaxIntegral |-> 2000,
               DFilter |-> 256, IError |-> 0, LastInput |-> 0, DError |-> 0]]

\* IntPID::Calculate: the controller after the call.
PIDStep(c, SetPoint, Measured, DoInt) ==
  LET PError == clamp(SetPoint - Measured, -c.PIMax, c.PIMax)
      IError == IF DoInt # 0
                THEN clamp(c.IError + PError, -c.MaxIntegral, c.MaxIntegral)
                ELSE c.IError
      raw    == Measured - c.LastInput
      DError == c.DError + CDiv((raw - c.DError) * c.DFilter, 256)
  IN  [c EXCEPT !.IError = IError, !.LastInput = Measured, !.DError = DError]

\* IntPID::Calculate: the value returned, given the controller after the call.
PIDOutput(c, SetPoint, Measured) ==
  LET PError == clamp(SetPoint - Measured, -c.PIMax, c.PIMax)
  IN  clamp(Shr(c.P * PError + c.I * c.IError + c.D * c.DError, c.Q),
            -c.MaxOutput, c.MaxOutput)

ResetIntegralError(c) ==
  [c EXCEPT !.IError = 0]

(***************************************************************************)
(* Radio frame                                                             *)
(***************************************************************************)
\* Named aliases of the eight channels.
Thro(r) == r[0]
Aile(r) == r[1]
Elev(r) == r[2]
Rudd(r) == r[3]
Gear(r) == r[4]
Aux2(r) == r[6]
Aux3(r) == r[7]

\* Variant: the scale taken per 1000 instead of per 1024.
ScaleChannels_Per1000(p, raw) ==
  [i \in Channels |->
     S16(CDiv((raw[p.ChannelIndex[i]] - p.ChannelCenter[i]) * p.ChannelScale[i],
              1000))]

\* main(), the channel loop: centre, scale and remap the receiver's values.
ScaleChannels(p, raw) ==
  [i \in Channels |->
     S16(CDiv((raw[p.ChannelIndex[i]] - p.ChannelCenter[i]) * p.ChannelScale[i],
              1024))]

\* Variant: the gear thresholds taken inclusively.
NewFlightMode_Inclusive(r) ==
  IF Gear(r) >= GearThreshold THEN FlightMode_Assisted
  ELSE IF Gear(r) <= -GearThreshold THEN FlightMode_Manual
  ELSE FlightMode_Automatic

\* main(): the three-position gear switch.
NewFlightMode(r) ==
  IF Gear(r) > GearThreshold THEN FlightMode_Assisted
  ELSE IF Gear(r) < -GearThreshold THEN FlightMode_Manual
  ELSE FlightMode_Automatic

SticksDown(r) ==
  Thro(r) < -GestureThreshold /\ Elev(r) < -GestureThreshold

ArmGesture(r) ==
  SticksDown(r) /\ Rudd(r) > GestureThreshold /\ Aile(r) < -GestureThreshold

CompassGesture(r) ==
  SticksDown(r) /\ ~ArmGesture(r)
  /\ Rudd(r) > GestureThreshold /\ Aile(r) > GestureThreshold

DisarmGesture(r) ==
  /\ Rudd(r) < -GestureThreshold /\ Aile(r) > GestureThreshold
  /\ Thro(r) < -GestureThreshold /\ Elev(r) < -GestureThreshold

\* Variant: the integral gate left open at any throttle.
IntegrateGate_Open(r) ==
  1

\* UpdateFlightLoop: the integral gate.
IntegrateGate(r) ==
  IF Thro(r) < IntegrateThreshold THEN 0 ELSE 1

(***************************************************************************)
(* The program state as one record, so that each function of the program   *)
(* is an operator from the state before it to the state after it.          *)
(***************************************************************************)
Log(s, e) ==
  [s EXCEPT !.events = Append(@, e)]

(***************************************************************************)
(* FindGyroZero                                                            *)
(***************************************************************************)
MinTries == 2
MaxTries == 64
WindowReads == 64

GyroAxes == {"X", "Y", "Z"}

\* The readings of one axis in one pass: r[0] is the starting reading, r[1]
\* to r[64] the readings of the sampling loop.
\* vmin[a] after the sampling loop.
MinOf(r) ==
  CHOOSE m \in {r[i] : i \in 0..WindowReads} :
    \A i \in 0..WindowReads : m <= r[i]

\* vmax[a] after the sampling loop.
MaxOf(r) ==
  CHOOSE m \in {r[i] : i \in 0..WindowReads} :
    \A i \in 0..WindowReads : m >= r[i]

\* avg[a] after the sampling loop: the sum of r[lo..hi].
RECURSIVE SumOf(_, _, _)
SumOf(r, lo, hi) ==
  IF lo = hi THEN r[lo]
  ELSE SumOf(r, lo, (lo + hi) \div 2) + SumOf(r, (lo + hi) \div 2 + 1, hi)

\* avg[a] after 'avg[a] /= 64'.
AxisAvg(r) ==
  CDiv(SumOf(r, 1, WindowReads), 64)

\* var: how far the average is from the middle of the range.
AxisVar(r) ==
  CDiv(MaxOf(r) + MinOf(r), 2) - AxisAvg(r)

WindowAvg(w) ==
  [a \in GyroAxes |-> AxisAvg(w[a])]

\* maxVar = max( maxVar, abs(var) ) over the axes, from 0.
WindowMaxVar(w) ==
  CHOOSE m \in {0} \cup {abs(AxisVar(w[a])) : a \in GyroAxes} :
    \A a \in GyroAxes : m >= abs(AxisVar(w[a]))

\* The locals at the 'do'.
GyroEntry ==
  [TryCounter |-> 0, bestvar |-> -1, best |-> [a \in GyroAxes |-> 0]]

\* Variant: a window as quiet as the best one replaces it.
KeepBest_LatestOnTie(g, maxVar, avg) ==
  IF g.bestvar = -1 \/ maxVar <= g.bestvar
  THEN [g EXCEPT !.best = avg, !.bestvar = maxVar]
  ELSE g

\* if( (bestvar == -1) || (maxVar < bestvar) ) ...
KeepBest(g, maxVar, avg) ==
  IF g.bestvar = -1 \/ maxVar < g.bestvar
  THEN [g EXCEPT !.best = avg, !.bestvar = maxVar]
  ELSE g

\* Every 4th pass beeps; then TryCounter++.
GyroBeep(s) ==
  [(IF s.fgz.TryCounter % 4 = 3 THEN Log(s, "BeepHz") ELSE s)
     EXCEPT !.fgz.TryCounter = @ + 1]

\* Variant: one pass more than MaxTries.
GyroContinue_OneMore(g) ==
  g.TryCounter < MaxTries + 1 /\ (g.bestvar > 2 \/ g.TryCounter < MinTries)

\* The condition of the do-while.
GyroContinue(g) ==
  g.TryCounter < MaxTries /\ (g.bestvar > 2 \/ g.TryCounter < MinTries)

\* The rest of a pass once the readings are reduced to maxVar and avg.
GyroPass(s, maxVar, avg) ==
  GyroBeep([s EXCEPT !.fgz = KeepBest(@, maxVar, avg)])

\* After the loop: publish the best averages.
GyroPublish(s) ==
  IF GyroContinue(s.fgz) THEN s
  ELSE Log([s EXCEPT !.GyroZero = s.fgz.best, !.pc = "loop"], "SetGyroZero")

FindGyroZeroPass(s, maxVar, avg) ==
  GyroPublish(GyroPass(s, maxVar, avg))

\* Servo32_Set( MotorPin[i], v )
Servo32_Set(s, i, v) ==
  [s EXCEPT !.Servo[i] = v]

All_LED(s, color) ==
  [s EXCEPT !.LEDValue = color]

LEDColorTable == << "Cyan", "White", "Yellow", "Violet" >>

LEDArmDisarm == << "Green", "Red" >>

LowBatt(s) ==
  /\ s.Prefs.UseBattMon # 0
  /\ s.BatteryVolts < s.Prefs.LowVoltageAlarmThreshold
  /\ s.BatteryVolts > 200

\* Variant: the colour selection without the low-battery flash.
UpdateFlightLEDColor_NoFlash(s) ==
  IF (s.counter \div 8) % 16 < 3 \/ s.IsHolding # 0
  THEN [s EXCEPT !.LEDModeColor = LEDColorTable[(s.FlightMode % 4) + 1]]
  ELSE [s EXCEPT !.LEDModeColor = LEDArmDisarm[(s.FlightEnabled % 2) + 1]]

UpdateFlightLEDColor(s) ==
  IF LowBatt(s)
  THEN IF (s.counter \div 8) % 8 < 4
       THEN [s EXCEPT !.LEDModeColor = LEDColorTable[(s.FlightMode % 4) + 1]]
       ELSE [s EXCEPT !.LEDModeColor = "Orange"]
  ELSE IF (s.counter \div 8) % 16 < 3 \/ s.IsHolding # 0
       THEN [s EXCEPT !.LEDModeColor = LEDColorTable[(s.FlightMode % 4) + 1]]
       ELSE [s EXCEPT !.LEDModeColor = LEDArmDisarm[(s.FlightEnabled % 2) + 1]]

\* gz: the zeros FindGyroZero publishes.
ArmFlightMode(s, gz) ==
  LET s1 == Log([s EXCEPT !.FlightEnabled = 1, !.FlightEnableStep = 0,
                          !.CompassConfigStep = 0], "Beep2")
      s2 == Log([All_LED(s1, "HalfRed") EXCEPT !.GyroZero = gz], "FindGyroZero")
      s3 == Log(All_LED(s2, "HalfBlue"), "BeepTune")
  IN  [s3 EXCEPT !.DesiredAltitude = s3.AltiEst]

\* Variant: a disarm that leaves the servo values alone.
DisarmFlightMode_KeepServo(s) ==
  All_LED(Log([s EXCEPT !.Motor = [i \in Motors |-> s.Prefs.MinThrottle],
                        !.FlightEnabled = 0, !.FlightEnableStep = 0,
                        !.CompassConfigStep = 0], "Beep3"), "HalfGreen")

DisarmFlightMode(s) ==
  LET s1 == [s EXCEPT !.Motor = [i \in Motors |-> s.Prefs.MinThrottle],
                      !.Servo = [i \in Motors |-> s.Prefs.MinThrottle],
                      !.FlightEnabled = 0, !.FlightEnableStep = 0,
                      !.CompassConfigStep = 0]
  IN  All_LED(Log(s1, "Beep3"), "HalfGreen")

\* Placeholder in the source: no effect.
StartCompassCalibrate(s) ==
  s

\* Variant: a broken arming hold keeps its count.
DisarmedGestures_KeepCount(s, gz) ==
  IF SticksDown(s.Radio) /\ Rudd(s.Radio) > GestureThreshold
       /\ Aile(s.Radio) < -GestureThreshold
  THEN LET s1 == [s EXCEPT !.FlightEnableStep = S16(@ + 1),
                           !.CompassConfigStep = 0,
                           !.LEDModeColor = "HalfYellow"]
       IN  IF s1.FlightEnableStep >= s1.Prefs.ArmDelay
           THEN ArmFlightMode(s1, gz) ELSE s1
  ELSE [s EXCEPT !.CompassConfigStep = 0]

\* UpdateFlightLoop, FlightEnabled == 0: the arming and compass gestures.
DisarmedGestures(s, gz) ==
  IF SticksDown(s.Radio)
  THEN IF Rudd(s.Radio) > GestureThreshold /\ Aile(s.Radio) < -GestureThreshold
       THEN LET s1 == [s EXCEPT !.FlightEnableStep = S16(@ + 1),
                                !.CompassConfigStep = 0,
                                !.LEDModeColor = "HalfYellow"]
            IN  IF s1.FlightEnableStep >= s1.Prefs.ArmDelay
                THEN ArmFlightMode(s1, gz) ELSE s1
       ELSE IF Rudd(s.Radio) > GestureThreshold /\ Aile(s.Radio) > GestureThreshold
       THEN LET s1 == [s EXCEPT !.CompassConfigStep = S16(@ + 1),
                                !.FlightEnableStep = 0,
                                !.LEDModeColor = "HalfViolet"]
            IN  IF s1.CompassConfigStep = CompassHoldTicks
                THEN StartCompassCalibrate(s1) ELSE s1
       ELSE [s EXCEPT !.CompassConfigStep = 0, !.FlightEnableStep = 0]
  ELSE [s EXCEPT !.CompassConfigStep = 0, !.FlightEnableStep = 0]

\* One IntPID::Calculate call on controller n; the value returned is left
\* in s.ret.
Calculate(s, n, SetPoint, Measured, DoInt) ==
  Log([s EXCEPT !.pid[n] = PIDStep(@, SetPoint, Measured, DoInt),
                !.ret = PIDOutput(PIDStep(s.pid[n], SetPoint, Measured, DoInt),
                                  SetPoint, Measured)],
      IF DoInt # 0 THEN "Calc1." \o n ELSE "Calc0." \o n)

\* The assignment of a call's result to the variable named f.
Store(s, f) ==
  [s EXCEPT ![f] = s.ret]

\* UpdateFlightLoop: the filtered gyro rates.
GyroRates(s, sens) ==
  [s EXCEPT
     !.GyroRoll  = @ + Shr(((sens.GyroY - s.GyroZero.Y) - @) * GyroRPFilter, 8),
     !.GyroPitch = @ + Shr(((-(sens.GyroX - s.GyroZero.X)) - @) * GyroRPFilter, 8),
     !.GyroYaw   = @ + Shr(((-(sens.GyroZ - s.GyroZero.Z)) - @) * GyroYawFilter, 8)]

\* "When throttle is essentially zero, disable all control authority".
ZeroThrottle(s) ==
  IF Thro(s.Radio) < IntegrateThreshold
  THEN Log([s EXCEPT !.DoIntegrate = IntegrateGate(s.Radio)],
           IF s.FlightMode = FlightMode_Manual
           THEN "ResetDesiredOrientation" ELSE "ResetDesiredYaw")
  ELSE [s EXCEPT !.DoIntegrate = IntegrateGate(s.Radio)]

\* RollOut, PitchOut, YawOut.
AttitudePIDs(s) ==
  Store(Calculate(
    Store(Calculate(
      Store(Calculate(s, "Roll", s.RollDifference, s.GyroRoll, s.DoIntegrate),
            "RollOut"),
      "Pitch", s.PitchDifference, s.GyroPitch, s.DoIntegrate), "PitchOut"),
    "Yaw", s.YawDifference, s.GyroYaw, s.DoIntegrate), "YawOut")

\* ThroMix and the stick throttle.
ThrottleBase(s) ==
  [s EXCEPT !.ThroMix = clamp(Shr(Thro(s.Radio) + 1024, 2), 0, 64),
            !.ThroOut = Thro(s.Radio) * 4 + ThrottleCenter,
            !.AdjustedThrottle = 0]

\* Variant: hold entry that keeps the Altitude integral.
EnterHold_KeepIntegral(s) ==
  IF s.IsHolding = 0
  THEN [s EXCEPT !.IsHolding = 1, !.DesiredAltitude = s.AltiEst]
  ELSE s

\* "Are we just entering altitude hold mode?"
EnterHold(s) ==
  IF s.IsHolding = 0
  THEN Log([s EXCEPT !.IsHolding = 1, !.DesiredAltitude = s.AltiEst,
                     !.pid.Alt = ResetIntegralError(@)], "Reset.Alt")
  ELSE s

\* Throttle off centre: the stick commands an ascent rate.
ClimbByStick(s, adj) ==
  [s EXCEPT !.IsHolding = 0, !.AdjustedThrottle = adj,
            !.DesiredAscentRate = CDiv(adj * 6000, 1024 - AltiThrottleDeadband)]

\* Throttle in the deadband: AltPID commands the ascent rate.
HoldAltitude(s) ==
  Store(Calculate(s, "Alt", s.DesiredAltitude, s.AltiEst, s.DoIntegrate),
        "DesiredAscentRate")

\* The in-flight tuning of AscentPID, then AltiThrust.
AscentThrust(s) ==
  Store(Calculate([s EXCEPT !.pid.Ascent.P = 1024 + Aux2(s.Radio),
                            !.pid.Ascent.I = (1024 + Aux3(s.Radio)) * 250],
                  "Ascent", s.DesiredAscentRate, s.AscentEst, s.DoIntegrate),
        "AltiThrust")

\* ThroOut = Prefs.CenterThrottle + AltiThrust + AdjustedThrottle
AltiThrottle(s) ==
  [s EXCEPT !.ThroOut = s.Prefs.CenterThrottle + s.AltiThrust + s.AdjustedThrottle]

\* UpdateFlightLoop, Automatic mode: the altitude / ascent cascade.
AltitudeCascade(s) ==
  AltiThrottle(AscentThrust(
    IF abs(Thro(s.Radio)) > AltiThrottleDeadband
    THEN ClimbByStick(s, IF Thro(s.Radio) > 0
                         THEN Thro(s.Radio) - AltiThrottleDeadband
                         ELSE Thro(s.Radio) + AltiThrottleDeadband)
    ELSE HoldAltitude(EnterHold(s))))

\* Accelerometer assist.
AccelAssist(s) ==
  IF /\ AccelAssistZFactor > 0
     /\ abs(Aile(s.Radio)) < 300 /\ abs(Elev(s.Radio)) < 300
     /\ s.ThroMix > 32
  THEN [s EXCEPT !.ThroOut =
          @ - CDiv((s.AccelZSmooth - Const_OneG) * AccelAssistZFactor, 64)]
  ELSE s

\* Tilt compensated thrust assist; tf is QuatIMU_GetThrustFactor().
ThrustCorrection(s, tf) ==
  IF s.Prefs.ThrustCorrectionScale > 0
  THEN [s EXCEPT !.ThroOut =
          s.Prefs.MinThrottle
            + Shr((@ - s.Prefs.MinThrottle)
                    * clamp(256 + CDiv((tf - 256) * s.Prefs.ThrustCorrectionScale,
                                       256), 256, 384), 8)]
  ELSE s

\* The block under FlightMode != FlightMode_Manual.
ThrottleAssist(s, tf) ==
  ThrustCorrection(
    AccelAssist(IF s.FlightMode = FlightMode_Automatic
                THEN AltitudeCascade(s) ELSE s), tf)

\* The X configuration mixer, before the clamp.
MixX(s) ==
  [s EXCEPT !.Motor =
     [i \in Motors |->
        s.ThroOut
          + Shr((CASE i = OUT_FL -> s.PitchOut + s.RollOut - s.YawOut
                   [] i = OUT_FR -> s.PitchOut - s.RollOut + s.YawOut
                   [] i = OUT_BL -> -s.PitchOut + s.RollOut + s.YawOut
                   [] i = OUT_BR -> -s.PitchOut - s.RollOut - s.YawOut)
                  * s.ThroMix, 7)]]

\* Variant: the clamp without its upper end.
ClampMotor_NoCeiling(p, v) ==
  IF v < p.MinThrottleArmed THEN p.MinThrottleArmed ELSE v

\* Variant: the clamp without its lower end.
ClampMotor_NoFloor(p, v) ==
  IF v > p.MaxThrottle THEN p.MaxThrottle ELSE v

\* The low-throttle / high-throttle clamp of one motor output.
ClampMotor(p, v) ==
  clamp(v, p.MinThrottleArmed, p.MaxThrottle)

ClampMotors(s) ==
  [s EXCEPT !.Motor = [i \in Motors |-> ClampMotor(s.Prefs, s.Motor[i])]]

\* Copy the new output array into the servo values.
DispatchMotors(s) ==
  IF s.Prefs.DisableMotors = 0
  THEN [s EXCEPT !.Servo = [i \in Motors |-> s.Motor[i]]]
  ELSE s

\* The throttle of this tick: stick, altitude cascade, assists.
ThrottleStage(s, tf) ==
  IF s.FlightMode # FlightMode_Manual
  THEN ThrottleAssist(ThrottleBase(s), tf)
  ELSE ThrottleBase(s)

\* UpdateFlightLoop, FlightEnabled # 0 and no disarm: rates, PIDs, mixer.
ArmedControl(s, in) ==
  DispatchMotors(ClampMotors(MixX(
    ThrottleStage(AttitudePIDs(ZeroThrottle(GyroRates(s, in.sens))),
                  in.thrustFactor))))

\* Variant: a broken disarming hold keeps its count.
ArmedLoop_KeepCount(s, in) ==
  IF DisarmGesture(s.Radio)
  THEN LET s1 == [s EXCEPT !.FlightEnableStep = S16(@ + 1),
                           !.LEDModeColor = "HalfYellow"]
       IN  IF s1.FlightEnableStep >= s1.Prefs.DisarmDelay
           THEN [DisarmFlightMode(s1) EXCEPT !.returned = TRUE]
           ELSE ArmedControl(s1, in)
  ELSE ArmedControl(s, in)

\* UpdateFlightLoop, FlightEnabled # 0: the disarming gesture, then control.
\* The flag s.returned records the early return after DisarmFlightMode.
ArmedLoop(s, in) ==
  IF DisarmGesture(s.Radio)
  THEN LET s1 == [s EXCEPT !.FlightEnableStep = S16(@ + 1),
                           !.LEDModeColor = "HalfYellow"]
       IN  IF s1.FlightEnableStep >= s1.Prefs.DisarmDelay
           THEN [DisarmFlightMode(s1) EXCEPT !.returned = TRUE]
           ELSE ArmedControl(s1, in)
  ELSE ArmedControl([s EXCEPT !.FlightEnableStep = 0], in)

\* UpdateFlightLoop: the low-voltage alarm.
BatteryAlarm(s) ==
  IF s.Prefs.UseBattMon # 0 /\ s.Prefs.LowVoltageAlarm # 0
  THEN IF /\ s.BatteryVolts < s.Prefs.LowVoltageAlarmThreshold
          /\ s.BatteryVolts > 200
          /\ s.counter % 64 = 0
       THEN Log([s EXCEPT !.buzzer = 1], "BeepOn")
       ELSE IF s.counter % 64 > 32
            THEN Log([s EXCEPT !.buzzer = 0], "BeepOff")
            ELSE s
  ELSE s

\* The two branches on FlightEnabled.
FlightBranch(s, in) ==
  IF s.FlightEnabled = 0 THEN DisarmedGestures(s, in.gz) ELSE ArmedLoop(s, in)

\* The alarm block, not reached after the return that follows a disarm.
AlarmBlock(s) ==
  IF s.returned THEN [s EXCEPT !.returned = FALSE] ELSE BatteryAlarm(s)

UpdateFlightLoop(s, in) ==
  AlarmBlock(FlightBranch(UpdateFlightLEDColor(s), in))

(***************************************************************************)
(* Persistence (prefs.cpp)                                                 *)
(***************************************************************************)
IdentityIndex == [c \in Channels |-> c]

\* Prefs_SetDefaults
DefaultPrefs ==
  [MinThrottle |-> 8000, MinThrottleArmed |-> 8400, MaxThrottle |-> 16000,
   CenterThrottle |-> 12000, ArmDelay |-> 250, DisarmDelay |-> 125,
   DisableMotors |-> 0, UseBattMon |-> 1, LowVoltageAlarm |-> 1,
   LowVoltageAlarmThreshold |-> 1050, VoltageOffset |-> 0,
   ThrustCorrectionScale |-> 256, AccelCorrectionFilter |-> 16, UseSBUS |-> 0,
   ChannelIndex |-> IdentityIndex,
   ChannelCenter |-> [c \in Channels |-> 0],
   ChannelScale |-> [c \in Channels |-> 1024],
   Checksum |-> 0]

\* Prefs_Save: stamp the checksum and write the blob.
Prefs_Save(s) ==
  LET p == WithChecksum(s.Prefs)
  IN  Log([s EXCEPT !.Prefs = p, !.eeprom = PrefsBytes(p)], "Prefs_Save")

\* Prefs_Load: read the blob back; an invalid blob is replaced by the defaults.
\* The result of the call is left in s.ret (1: valid).
Prefs_Load(s) ==
  IF ChecksumOfBytes(s.eeprom) = WordAt(s.eeprom, PrefWords + 1)
  THEN Log([s EXCEPT !.Prefs = BytesPrefs(s.eeprom), !.ret = 1], "Prefs_Load")
  ELSE [Prefs_Save([s EXCEPT !.Prefs = DefaultPrefs]) EXCEPT !.ret = 0]

\* ApplyPrefs: hands the values to the sensor and IMU drivers.
ApplyPrefs(s) ==
  Log(s, "ApplyPrefs")

(***************************************************************************)
(* CheckDebugInput                                                         *)
(***************************************************************************)
\* c == 0x13 in MODE_SensorTest: reset the channel calibration.
ResetChannels(s) ==
  Log([s EXCEPT !.Prefs.ChannelScale = [c \in Channels |-> 1024],
                !.Prefs.ChannelCenter = [c \in Channels |-> 0]], "Beep2")

\* Comm.StartPacket(0x18), AddPacketData(&Prefs), EndPacket, Tx.
SendPrefs(s, port) ==
  [s EXCEPT !.txPrefs = PrefsBytes(s.Prefs),
            !.tx = Append(@, [port |-> port, id |-> 24,
                              data |-> PrefsBytes(s.Prefs)])]

\* Variant: the record sent without a fresh checksum.
QueryPrefs_NoStamp(s, port) ==
  SendPrefs(s, port)

\* c == 0x18: stamp the checksum and send the record.
QueryPrefs(s, port) ==
  SendPrefs([s EXCEPT !.Prefs = WithChecksum(@)], port)

\* The scratch record's checksum test.
ChecksumMatches(b) ==
  ChecksumOfBytes(b) = WordAt(b, PrefWords + 1)

\* memcpy( &Prefs, &TempPrefs, sizeof(Prefs) )
CopyTemp(s) ==
  Log([s EXCEPT !.Prefs = BytesPrefs(s.TempPrefs)], "Copy")

\* if( Prefs_Load() ) { BeepOff; Beep2; ApplyPrefs } else { Beep }
AfterReload(s) ==
  IF s.ret # 0
  THEN ApplyPrefs(Log(Log([s EXCEPT !.buzzer = 0], "BeepOff"), "Beep2"))
  ELSE Log(s, "Beep")

\* Variant: the old record persisted before the scratch record is copied.
AcceptUpload_SaveFirst(s) ==
  AfterReload(Prefs_Load(CopyTemp(Prefs_Save(Log(s, "Verified")))))

\* The branch taken when the scratch record verifies.
AcceptUpload(s) ==
  AfterReload(Prefs_Load(Prefs_Save(CopyTemp(Log(s, "Verified")))))

\* The receive loop: reads is the result of each S4_Get_Timed call, -1 on a
\* timeout; every result is stored as a byte.
ReceivePrefs(s, reads) ==
  Log([(IF \E i \in 1..PrefsSize : reads[i] < 0 THEN Log(s, "Timeout") ELSE s)
         EXCEPT !.TempPrefs = [i \in 1..PrefsSize |-> ToByte(reads[i])]],
      "Receive")

\* Variant: the scratch record copied without the checksum test.
VerifyPrefs_Skip(s) ==
  AcceptUpload(s)

VerifyPrefs(s) ==
  IF ChecksumMatches(s.TempPrefs) THEN AcceptUpload(s) ELSE Log(s, "Beep")

\* c == 0x19
UploadPrefs(s, reads) ==
  VerifyPrefs(ReceivePrefs(s, reads))

\* c == 0x1a: wipe to the defaults when the confirmation byte follows.
WipePrefs(s, reads) ==
  IF reads[1] = 26
  THEN Log(Prefs_Save([s EXCEPT !.Prefs = DefaultPrefs]), "Beep3")
  ELSE s

\* Variant: the calibration commands taken in every display mode.
SensorCommands_AnyMode(s, c) ==
  IF (c \div 8) * 8 = 16
  THEN CASE c = 16 -> Log(s, "Sensors_TempZeroDriftValues")
         [] c = 17 -> Log(s, "Sensors_ResetDriftValues")
         [] c = 19 -> ResetChannels(s)
         [] c = 20 -> Log(s, "Sensors_TempZeroAccelOffsetValues")
         [] c = 21 -> Log(s, "Sensors_ResetAccelOffsetValues")
         [] OTHER  -> s
  ELSE s

\* (c & 0xF8) == 0x10: the calibration commands, in MODE_SensorTest only.
SensorCommands(s, c) ==
  IF (c \div 8) * 8 = 16 /\ s.Mode = MODE_SensorTest
  THEN CASE c = 16 -> Log(s, "Sensors_TempZeroDriftValues")
         [] c = 17 -> Log(s, "Sensors_ResetDriftValues")
         [] c = 19 -> ResetChannels(s)
         [] c = 20 -> Log(s, "Sensors_TempZeroAccelOffsetValues")
         [] c = 21 -> Log(s, "Sensors_ResetAccelOffsetValues")
         [] OTHER  -> s
  ELSE s

\* (c & 0xF8) == 0x18: the preferences commands.
PrefsCommands(s, port, c, reads) ==
  IF (c \div 8) * 8 = 24
  THEN CASE c = 24 -> QueryPrefs(s, port)
         [] c = 25 -> UploadPrefs(s, reads)
         [] c = 26 -> WipePrefs(s, reads)
         [] OTHER  -> s
  ELSE s

\* c == 0xff: the ping.
Ping(s, port, c) ==
  IF c = 255
  THEN [s EXCEPT !.tx = Append(@, [port |-> port, id |-> 232, data |-> << >>])]
  ELSE s

\* The commands at and above 0x10.
Command(s, port, c, reads) ==
  Ping(PrefsCommands(SensorCommands(s, c), port, c, reads), port, c)

\* Variant: the nudge taken from either port.
Dispatch_AnyPort(s, port, c, reads) ==
  IF c <= MODE_MotorTest
  THEN IF port = 0
       THEN [s EXCEPT !.Mode = c, !.UsbPulse = PulseTicks, !.XBeePulse = 0]
       ELSE [s EXCEPT !.Mode = c, !.UsbPulse = 0, !.XBeePulse = PulseTicks]
  ELSE IF (c \div 8) * 8 = 8
  THEN [s EXCEPT !.NudgeMotor = c % 8]
  ELSE Command(s, port, c, reads)

\* One command byte c from port (0: USB, 1: XBee).
Dispatch(s, port, c, reads) ==
  IF c <= MODE_MotorTest
  THEN IF port = 0
       THEN [s EXCEPT !.Mode = c, !.UsbPulse = PulseTicks, !.XBeePulse = 0]
       ELSE [s EXCEPT !.Mode = c, !.UsbPulse = 0, !.XBeePulse = PulseTicks]
  ELSE IF port = 0 /\ (c \div 8) * 8 = 8
  THEN [s EXCEPT !.NudgeMotor = c % 8]
  ELSE Command(s, port, c, reads)

\* ser.usb and ser.xbee are what S4_Check(0) and S4_Check(1) return (-1: no
\* byte); ser.reads are the timed reads that follow the command byte.
CheckDebugInput(s, ser) ==
  IF ser.usb >= 0
  THEN Dispatch([s EXCEPT !.rx = [port |-> 0, c |-> ser.usb]], 0, ser.usb,
                ser.reads)
  ELSE IF ser.xbee >= 0
  THEN Dispatch([s EXCEPT !.rx = [port |-> 1, c |-> ser.xbee]], 1, ser.xbee,
                ser.reads)
  ELSE [s EXCEPT !.rx = [port |-> 0, c |-> -1]]

(***************************************************************************)
(* DoDebugModeOutput                                                       *)
(***************************************************************************)
\* Variant: the expiry of a timer returns without clearing Mode.
PulseCountdown_KeepMode(s) ==
  IF s.UsbPulse > 0
  THEN LET s1 == [s EXCEPT !.UsbPulse = S16(@ - 1)]
       IN  IF s1.UsbPulse = 0
           THEN [s1 EXCEPT !.returned = TRUE]
           ELSE [s1 EXCEPT !.phase = s.counter % 8]
  ELSE IF s.XBeePulse > 0
  THEN LET s1 == [s EXCEPT !.UsbPulse = S16(@ - 1)]
       IN  IF s1.UsbPulse = 0
           THEN [s1 EXCEPT !.returned = TRUE]
           ELSE [s1 EXCEPT !.port = 1,
                           !.phase = ((s.counter \div 2) % 8)
                                       + (s.counter % 2) * 65536]
  ELSE s

\* The pulse countdown at the top of DoDebugModeOutput.  s.returned records
\* the early return; s.port and s.phase are the locals (phase -1: never
\* assigned).
PulseCountdown(s) ==
  IF s.UsbPulse > 0
  THEN LET s1 == [s EXCEPT !.UsbPulse = S16(@ - 1)]
       IN  IF s1.UsbPulse = 0
           THEN [s1 EXCEPT !.Mode = MODE_None, !.returned = TRUE]
           ELSE [s1 EXCEPT !.phase = s.counter % 8]
  ELSE IF s.XBeePulse > 0
  THEN LET s1 == [s EXCEPT !.UsbPulse = S16(@ - 1)]
       IN  IF s1.UsbPulse = 0
           THEN [s1 EXCEPT !.Mode = MODE_None, !.returned = TRUE]
           ELSE [s1 EXCEPT !.port = 1,
                           !.phase = ((s.counter \div 2) % 8)
                                       + (s.counter % 2) * 65536]
  ELSE s

\* Packet type sent in MODE_SensorTest at each phase (0: nothing).
PhasePacket(phase) ==
  CASE phase = 0 -> 1
    [] phase = 1 -> 7
    [] phase = 2 -> 2
    [] phase = 4 -> 3
    [] phase = 5 -> 5
    [] phase = 6 -> 4
    [] phase = 7 -> 6
    [] OTHER -> 0

\* The telemetry switch; ph is the value read from the local 'phase'.
Telemetry(s, ph) ==
  IF s.Mode = MODE_SensorTest /\ PhasePacket(ph) # 0
  THEN [s EXCEPT !.tx = Append(@, [port |-> s.port, id |-> PhasePacket(ph),
                                   data |-> << >>])]
  ELSE s

\* The end of the motor test block, and of the tick: ++counter, waitcnt.
EndNudge(s) ==
  [s EXCEPT !.NudgeMotor = -1]

\* Motor test code.  NudgeMotor == 6 stops at the first S4_Get(0).
MotorTest(s) ==
  IF s.NudgeMotor > -1
  THEN CASE s.NudgeMotor < 4 ->
              EndNudge(Servo32_Set(Log(s, "MotorTest"), s.NudgeMotor, NudgeThrottle))
         [] s.NudgeMotor = 4 -> EndNudge(Log(Log(s, "BeepHz"), "BeepHz"))
         [] s.NudgeMotor = 5 -> EndNudge(All_LED(s, "RainbowEnd"))
         [] s.NudgeMotor = 6 -> [Log(s, "BeepHz") EXCEPT !.pc = "esc1"]
         [] OTHER ->
              EndNudge([Log(s, "MotorsOff") EXCEPT
                          !.Servo = [i \in Motors |-> s.Prefs.MinThrottle]])
  ELSE s

\* The values the local 'phase' can hold when the switch reads it.
PhaseOutcomes(s) ==
  IF s.phase = -1 /\ ~s.returned /\ s.Mode = MODE_SensorTest
  THEN 0..8 ELSE {s.phase}

\* What follows the pulse countdown: if( Mode == MODE_None ) return; ...
DebugOutput(s, ph) ==
  IF s.returned \/ s.Mode = MODE_None THEN s
  ELSE MotorTest(Telemetry(s, ph))

DoDebugModeOutput(s, ph) ==
  DebugOutput(PulseCountdown(s), ph)

(***************************************************************************)
(* State                                                                   *)
(***************************************************************************)
VARIABLES
  Prefs, eeprom, Radio, FlightEnabled, FlightMode, IsHolding,
  FlightEnableStep, CompassConfigStep, DesiredAltitude, DesiredAscentRate,
  AltiEst, AscentEst, RollDifference, PitchDifference, YawDifference,
  GyroRoll, GyroPitch, GyroYaw, GyroZero, AccelZSmooth, Motor, Servo, pid,
  DoIntegrate, counter, Mode, NudgeMotor, UsbPulse, XBeePulse,
  BatteryMonitorDelay, BatteryVolts, LEDModeColor, LEDValue, buzzer,
  TempPrefs, tx, txPrefs, events, pc, fgz, mix, call, rc, rx, windows

vars ==
  << Prefs, eeprom, Radio, FlightEnabled, FlightMode, IsHolding,
     FlightEnableStep, CompassConfigStep, DesiredAltitude,
     DesiredAscentRate, AltiEst, AscentEst, RollDifference,
     PitchDifference, YawDifference, GyroRoll, GyroPitch, GyroYaw,
     GyroZero, AccelZSmooth, Motor, Servo, pid, DoIntegrate, counter, Mode,
     NudgeMotor, UsbPulse, XBeePulse, BatteryMonitorDelay, BatteryVolts,
     LEDModeColor, LEDValue, buzzer, TempPrefs, tx, txPrefs, events, pc,
     fgz, mix, call, rc, rx, windows >>

\* txPrefs: the payload of the last 0x18 packet put on the wire.
\* fgz: the locals of FindGyroZero (TryCounter, bestvar, best).
\* mix: the locals the X mixer reads, when the mixer is run by itself.
\* rc: the receiver driver's channel values, as the tick read them.
\* windows: the sampling windows FindGyroZero has read in this run (their
\* places in GyroWindowSeq), in the order of their first reading.
\* rx: the command byte CheckDebugInput took in the tick and its port (c = -1:
\* none).
\* call: the controller and the value returned, when IntPID::Calculate is
\* called by itself.
\* The variables as one record, with the locals of the tick cleared.
Now ==
  [Prefs |-> Prefs, eeprom |-> eeprom, Radio |-> Radio,
   FlightEnabled |-> FlightEnabled, FlightMode |-> FlightMode,
   IsHolding |-> IsHolding, FlightEnableStep |-> FlightEnableStep,
   CompassConfigStep |-> CompassConfigStep,
   DesiredAltitude |-> DesiredAltitude,
   DesiredAscentRate |-> DesiredAscentRate, AltiEst |-> AltiEst,
   AscentEst |-> AscentEst, RollDifference |-> RollDifference,
   PitchDifference |-> PitchDifference, YawDifference |-> YawDifference,
   GyroRoll |-> GyroRoll, GyroPitch |-> GyroPitch, GyroYaw |-> GyroYaw,
   GyroZero |-> GyroZero, AccelZSmooth |-> AccelZSmooth, Motor |-> Motor,
   Servo |-> Servo, pid |-> pid, DoIntegrate |-> DoIntegrate,
   counter |-> counter, Mode |-> Mode, NudgeMotor |-> NudgeMotor,
   UsbPulse |-> UsbPulse, XBeePulse |-> XBeePulse,
   BatteryMonitorDelay |-> BatteryMonitorDelay,
   BatteryVolts |-> BatteryVolts, LEDModeColor |-> LEDModeColor,
   LEDValue |-> LEDValue, buzzer |-> buzzer, TempPrefs |-> TempPrefs,
   tx |-> tx, txPrefs |-> txPrefs, events |-> events, pc |-> pc,
   fgz |-> fgz, mix |-> mix, call |-> call, rc |-> rc, rx |-> rx,
   windows |-> windows,
   RollOut |-> 0, PitchOut |-> 0, YawOut |-> 0, ThroMix |-> 0, ThroOut |-> 0,
   AdjustedThrottle |-> 0, AltiThrust |-> 0,
   ret |-> 0, returned |-> FALSE, phase |-> -1, port |-> 0]

Commit(s) ==
  /\ Prefs' = s.Prefs
  /\ eeprom' = s.eeprom
  /\ Radio' = s.Radio
  /\ FlightEnabled' = s.FlightEnabled
  /\ FlightMode' = s.FlightMode
  /\ IsHolding' = s.IsHolding
  /\ FlightEnableStep' = s.FlightEnableStep
  /\ CompassConfigStep' = s.CompassConfigStep
  /\ DesiredAltitude' = s.DesiredAltitude
  /\ DesiredAscentRate' = s.DesiredAscentRate
  /\ AltiEst' = s.AltiEst
  /\ AscentEst' = s.AscentEst
  /\ RollDifference' = s.RollDifference
  /\ PitchDifference' = s.PitchDifference
  /\ YawDifference' = s.YawDifference
  /\ GyroRoll' = s.GyroRoll
  /\ GyroPitch' = s.GyroPitch
  /\ GyroYaw' = s.GyroYaw
  /\ GyroZero' = s.GyroZero
  /\ AccelZSmooth' = s.AccelZSmooth
  /\ Motor' = s.Motor
  /\ Servo' = s.Servo
  /\ pid' = s.pid
  /\ DoIntegrate' = s.DoIntegrate
  /\ counter' = s.counter
  /\ Mode' = s.Mode
  /\ NudgeMotor' = s.NudgeMotor
  /\ UsbPulse' = s.UsbPulse
  /\ XBeePulse' = s.XBeePulse
  /\ BatteryMonitorDelay' = s.BatteryMonitorDelay
  /\ BatteryVolts' = s.BatteryVolts
  /\ LEDModeColor' = s.LEDModeColor
  /\ LEDValue' = s.LEDValue
  /\ buzzer' = s.buzzer
  /\ TempPrefs' = s.TempPrefs
  /\ tx' = s.tx
  /\ txPrefs' = s.txPrefs
  /\ events' = s.events
  /\ pc' = s.pc
  /\ fgz' = s.fgz
  /\ mix' = s.mix
  /\ call' = s.call
  /\ rc' = s.rc
  /\ rx' = s.rx
  /\ windows' = s.windows

(***************************************************************************)
(* main(): one iteration of the loop                                       *)
(***************************************************************************)
\* Sensor snapshot, IMU update request, accelerometer smoothing, channels.
Intake(s, in) ==
  [s EXCEPT !.events = << "IMU.Update" >>, !.tx = << >>, !.TempPrefs = << >>,
            !.DoIntegrate = -1,
            !.AccelZSmooth =
               @ + CDiv((in.sens.AccelZ - @) * s.Prefs.AccelCorrectionFilter, 256),
            !.rc = in.raw,
            !.Radio = ScaleChannels(s.Prefs, in.raw)]

\* Variant: the mode switch without the altitude capture.
ModeArbitration_NoCapture(s) ==
  LET new == NewFlightMode(s.Radio)
  IN  IF new # s.FlightMode
      THEN [Log(s, IF new = FlightMode_Manual
                   THEN "ResetDesiredOrientation" ELSE "ResetDesiredYaw")
              EXCEPT !.IsHolding = 0, !.FlightMode = new]
      ELSE s

\* The gear switch and the flight-mode change.
ModeArbitration(s) ==
  LET new == NewFlightMode(s.Radio)
  IN  IF new # s.FlightMode
      THEN [Log(s, IF new = FlightMode_Manual
                   THEN "ResetDesiredOrientation" ELSE "ResetDesiredYaw")
              EXCEPT !.DesiredAltitude =
                        IF new = FlightMode_Automatic THEN s.AltiEst ELSE @,
                     !.IsHolding = 0, !.FlightMode = new]
      ELSE s

\* Placeholder in the source: no effect.
DoCompassCalibrate(s) ==
  s

\* Variant: the voltage read one tick after the discharge.
BatteryMonitor_ReadEarly(s, volts) ==
  IF s.Prefs.UseBattMon # 0
  THEN IF s.BatteryMonitorDelay > 0
       THEN [s EXCEPT !.BatteryMonitorDelay = @ - 1, !.LEDModeColor = "Blue"]
       ELSE CASE s.counter % 16 = 0 -> Log(s, "DischargePin")
              [] s.counter % 16 = 2 -> Log(s, "ChargePin")
              [] s.counter % 16 = 1 ->
                   Log([s EXCEPT !.BatteryVolts = S16(volts + s.Prefs.VoltageOffset)],
                       "ReadResult")
              [] OTHER -> s
  ELSE s

\* The battery monitor ticker; volts is Battery::ComputeVoltage's result.
BatteryMonitor(s, volts) ==
  IF s.Prefs.UseBattMon # 0
  THEN IF s.BatteryMonitorDelay > 0
       THEN [s EXCEPT !.BatteryMonitorDelay = @ - 1, !.LEDModeColor = "Blue"]
       ELSE CASE s.counter % 16 = 0 -> Log(s, "DischargePin")
              [] s.counter % 16 = 2 -> Log(s, "ChargePin")
              [] s.counter % 16 = 15 ->
                   Log([s EXCEPT !.BatteryVolts = S16(volts + s.Prefs.VoltageOffset)],
                       "ReadResult")
              [] OTHER -> s
  ELSE s

\* Variant: the reads taken without the barrier after UpdateControls.
ReadIMU_NoSecondWait(s, imu) ==
  [Log(Log(Log(s, "IMU.Wait"), "IMU.UpdateControls"), "IMU.Read")
     EXCEPT !.PitchDifference = imu.Pitch, !.RollDifference = imu.Roll,
            !.YawDifference = -imu.Yaw, !.AltiEst = imu.Alti,
            !.AscentEst = imu.Ascent]

\* The two IMU barriers and the reads that follow them.
ReadIMU(s, imu) ==
  [Log(Log(Log(Log(s, "IMU.Wait"), "IMU.UpdateControls"), "IMU.Wait"),
       "IMU.Read")
     EXCEPT !.PitchDifference = imu.Pitch, !.RollDifference = imu.Roll,
            !.YawDifference = -imu.Yaw, !.AltiEst = imu.Alti,
            !.AscentEst = imu.Ascent]

\* if( FlightMode == FlightMode_CalibrateCompass ) ... else ...
FlightStage(s, in) ==
  IF s.FlightMode = FlightMode_CalibrateCompass
  THEN DoCompassCalibrate(s)
  ELSE UpdateFlightLoop(ModeArbitration(s), in)

\* All_LED( LEDModeColor )
ShowLED(s) ==
  All_LED(s, s.LEDModeColor)

\* The loop body up to and including CheckDebugInput.
LoopBody(s, in) ==
  CheckDebugInput(
    ReadIMU(ShowLED(BatteryMonitor(FlightStage(Intake(s, in), in), in.volts)),
            in.imu),
    in.ser)

\* ++counter and the waitcnt that ends the tick.
EndTick(s) ==
  [s EXCEPT !.counter = @ + 1, !.pc = "loop"]

\* One iteration of while(1), up to the waitcnt or to the first blocking
\* S4_Get(0) of the ESC calibration.
Tick(in, bound) ==
  /\ pc = "loop"
  /\ counter < bound
  /\ \E s \in {LoopBody(Now, in)} :
       \E ph \in PhaseOutcomes(PulseCountdown(s)) :
         \E d \in {DoDebugModeOutput(s, ph)} :
           Commit(IF d.pc = "loop" THEN EndTick(d) ELSE d)

\* ESC calibration: the first S4_Get(0) returns b.
EscByte1(b) ==
  /\ pc = "esc1"
  /\ \E s \in {Log(Now, "S4_Get")} :
       Commit(IF b = 255
                THEN [s EXCEPT !.Servo = [i \in Motors |-> s.Prefs.MaxThrottle],
                               !.pc = "esc2"]
                ELSE EndTick(EndNudge(s)))

\* ESC calibration: the second S4_Get(0) returns.
EscByte2 ==
  /\ pc = "esc2"
  /\ \E s \in {Log(Now, "S4_Get")} :
       Commit(EndTick(EndNudge(
           [s EXCEPT !.Servo = [i \in Motors |-> s.Prefs.MinThrottle]])))

\* FindGyroZero: one pass of the do-while (it blocks in waitcnt between the
\* readings), and the publication of the zeros when the loop ends.
\* r: what the sampling loops of the pass reduce the readings to.
GyroWindow(r) ==
  /\ pc = "gyro"
  /\ \E s \in {FindGyroZeroPass(Now, r.maxVar, r.avg)} :
       Commit([s EXCEPT !.windows =
                 IF \E k \in 1..Len(@) : @[k] = r.n THEN @ ELSE Append(@, r.n)])

\* One call of Calculate on the controller named by call.n; the value
\* returned is kept in call.out.
PidCall(SetPoint, Measured, DoInt) ==
  /\ pc = "pid"
  /\ \E s \in {Calculate([Now EXCEPT !.events = << >>], call.n, SetPoint,
                         Measured, DoInt)} :
       Commit([s EXCEPT !.call.out = s.ret])

\* The X mixer, the clamp and the dispatch of an armed tick, on the locals
\* held in mix.
MixStep ==
  /\ pc = "mix"
  /\ \E s \in {DispatchMotors(ClampMotors(MixX(
                 [Now EXCEPT !.RollOut = mix.RollOut, !.PitchOut = mix.PitchOut,
                             !.YawOut = mix.YawOut, !.ThroMix = mix.ThroMix,
                             !.ThroOut = mix.ThroOut, !.pc = "mixed"])))} :
       Commit(s)

(***************************************************************************)
(* Initial state: after Initialize() and the preamble of main()            *)
(***************************************************************************)
\* Stored preferences the controller may start from (valid blobs).
PrefsA ==
  WithChecksum([DefaultPrefs EXCEPT !.ArmDelay = 2, !.DisarmDelay = 2])

PrefsB ==
  WithChecksum([DefaultPrefs EXCEPT !.ArmDelay = 3, !.DisarmDelay = 2,
                                    !.MinThrottleArmed = 8600,
                                    !.VoltageOffset = -1,
                                    !.ChannelCenter = [c \in Channels |-> 8],
                                    !.ChannelScale = [c \in Channels |-> 1000]])

StoredPrefs == {PrefsA, PrefsB}

\* The zeros FindGyroZero can publish for the sensor samples below.
GyroZeroOutcomes == {[X |-> 0, Y |-> 0, Z |-> 0]}

NoMix ==
  [RollOut |-> 0, PitchOut |-> 0, YawOut |-> 0, ThroMix |-> 0, ThroOut |-> 0]

NoCall ==
  [n |-> "Roll", out |-> 0]

\* Everything Initialize() and the preamble of main() set, but the position
\* and the mixer's locals.
Booted(p, gz) ==
  /\ Prefs = p
  /\ eeprom = PrefsBytes(p)
  /\ Radio = [c \in Channels |-> 0]
  /\ FlightEnabled = 0
  /\ FlightMode = FlightMode_Assisted
  /\ IsHolding = 0
  /\ FlightEnableStep = 0
  /\ CompassConfigStep = 0
  /\ DesiredAltitude = 0
  /\ DesiredAscentRate = 0
  /\ AltiEst = 0
  /\ AscentEst = 0
  /\ RollDifference = 0
  /\ PitchDifference = 0
  /\ YawDifference = 0
  /\ GyroRoll = 0
  /\ GyroPitch = 0
  /\ GyroYaw = 0
  /\ GyroZero = gz
  /\ AccelZSmooth = 0
  /\ Motor = [i \in Motors |-> p.MinThrottle]
  /\ Servo = [i \in Motors |-> p.MinThrottle]
  /\ pid = PIDInit
  /\ DoIntegrate = -1
  /\ counter = 0
  /\ Mode = MODE_None
  /\ NudgeMotor = -1
  /\ UsbPulse = 0
  /\ XBeePulse = 0
  /\ BatteryMonitorDelay = ((Const_UpdateRate * 2) \div 16) * 16
  /\ BatteryVolts = 0
  /\ LEDModeColor = "Off"
  /\ LEDValue = "HalfRed"
  /\ buzzer = 0
  /\ TempPrefs = << >>
  /\ tx = << >>
  /\ txPrefs = << >>
  /\ events = << >>
  /\ fgz = GyroEntry
  /\ rc = [c \in Channels |-> 0]
  /\ rx = [port |-> 0, c |-> -1]
  /\ windows = << >>

InitWith(p, gz) ==
  Booted(p, gz) /\ pc = "loop" /\ mix = NoMix /\ call = NoCall

Init ==
  \E p \in StoredPrefs : \E gz \in GyroZeroOutcomes : InitWith(p, gz)

(***************************************************************************)
(* Inputs                                                                  *)
(***************************************************************************)
\* A receiver frame: throttle, aileron, elevator, rudder, gear; aux at 0.
Frame(t, a, e, r, g) ==
  [c \in Channels |->
     CASE c = 0 -> t [] c = 1 -> a [] c = 2 -> e [] c = 3 -> r [] c = 4 -> g
       [] OTHER -> 0]

ArmFrame == Frame(-1024, -1024, -1024, 1024, 1024)
DisarmFrame == Frame(-1024, 1024, -1024, -1024, 1024)
CompassFrame == Frame(-1024, 1024, -1024, 1024, 1024)

\* The disarm gesture with the throttle just above the integral gate.
SoftDisarmFrame == Frame(-790, 1024, -1024, -1024, 1024)

\* Sticks centred, throttle from off to full, each gear position.
FlyingFrames ==
  {Frame(t, 0, 0, 0, g) : t \in {-1024, -790, 0, 400, 1024}, g \in {-1024, 0, 1024}}

FlightFrames ==
  {ArmFrame, DisarmFrame, SoftDisarmFrame, CompassFrame} \cup FlyingFrames

StillSensors == [GyroX |-> 0, GyroY |-> 0, GyroZ |-> 0, AccelZ |-> Const_OneG]

\* What the IMU reports at the end of a tick.
ImuSamples ==
  {[Pitch |-> 0, Roll |-> 0, Yaw |-> 0, Alti |-> 0, Ascent |-> 0],
   [Pitch |-> 0, Roll |-> 60, Yaw |-> -30, Alti |-> 300, Ascent |-> 20]}

NoSerial == [usb |-> -1, xbee |-> -1, reads |-> << >>]

Input(raw, imu, ser) ==
  [raw |-> raw, sens |-> StillSensors, thrustFactor |-> 256,
   gz |-> CHOOSE gz \in GyroZeroOutcomes : TRUE, volts |-> 1200,
   imu |-> imu, ser |-> ser]

FlightInputs ==
  {Input(raw, imu, NoSerial) : raw \in FlightFrames, imu \in ImuSamples}

(***************************************************************************)
(* The flight specification: every stick sequence, no serial traffic       *)
(***************************************************************************)
Next ==
  \E in \in FlightInputs : Tick(in, MaxTicks)

Spec ==
  Init /\ [][Next]_vars

(***************************************************************************)
(* The link specification: ground-station traffic on both serial ports     *)
(***************************************************************************)
LinkTicks == 5

IdleFrame == Frame(-1024, 0, 0, 0, 1024)

LinkFrames == {IdleFrame, ArmFrame, DisarmFrame}

LevelImu == [Pitch |-> 0, Roll |-> 0, Yaw |-> 0, Alti |-> 0, Ascent |-> 0]

Usb(c, reads) == [usb |-> c, xbee |-> -1, reads |-> reads]

XBee(c, reads) == [usb |-> -1, xbee |-> c, reads |-> reads]

\* A blob with byte k replaced by v (v = -1: the read of byte k times out).
Damaged(b, k, v) ==
  [i \in 1..Len(b) |-> IF i = k THEN v ELSE b[i]]

\* First byte of a field's word in the blob.
ByteOf(f) ==
  2 * (CHOOSE k \in 1..NScalars : PrefScalars[k] = f) - 1

\* What the timed reads of an upload can return: a valid record, a record
\* with a wrong byte, and records during which one read times out.
UploadReads ==
  {PrefsBytes(PrefsA), PrefsBytes(PrefsB),
   Damaged(PrefsBytes(PrefsA), ByteOf("MinThrottle"), 1),
   Damaged(PrefsBytes(PrefsA), ByteOf("ArmDelay"), -1),
   Damaged(PrefsBytes(PrefsB), ByteOf("VoltageOffset"), -1)}

\* Motor-test traffic: heartbeats that select MODE_MotorTest, nudges (motor
\* 0, ESC calibration, motors off) on the USB port and on the radio modem,
\* and an upload, each with any of the stick frames.
LinkSerial ==
  {NoSerial, Usb(MODE_MotorTest, << >>), Usb(8, << >>), Usb(14, << >>),
   Usb(15, << >>), XBee(MODE_MotorTest, << >>), XBee(8, << >>),
   Usb(25, PrefsBytes(PrefsB))}

NudgeInputs ==
  {Input(raw, LevelImu, ser) : raw \in LinkFrames, ser \in LinkSerial}

NextLink ==
  \/ \E in \in NudgeInputs : Tick(in, LinkTicks)
  \/ \E b \in {255, 0} : EscByte1(b)
  \/ EscByte2

SpecLink ==
  Init /\ [][NextLink]_vars

(***************************************************************************)
(* The preferences specification: query, upload, wipe, channel reset       *)
(***************************************************************************)
PrefsTicks == 4

PrefsInputs ==
  {Input(IdleFrame, LevelImu, ser) :
     ser \in {NoSerial, Usb(MODE_SensorTest, << >>),
              Usb(24, << >>), XBee(24, << >>), Usb(255, << >>)}
             \cup {Usb(25, r) : r \in UploadReads}
             \cup {Usb(26, <<b>>) : b \in {26, -1}}}

\* The ground station sends back the record it was last sent.
EchoUpload ==
  /\ txPrefs # << >>
  /\ Tick(Input(IdleFrame, LevelImu, Usb(25, txPrefs)), PrefsTicks)

\* A tick in which the byte 0x13 arrives, on either port.
ResetCommandTick ==
  \E ser \in {Usb(19, << >>), XBee(19, << >>)} :
    Tick(Input(IdleFrame, LevelImu, ser), PrefsTicks)

NextPrefs ==
  \/ \E in \in PrefsInputs : Tick(in, PrefsTicks)
  \/ EchoUpload
  \/ ResetCommandTick

SpecPrefs ==
  Init /\ [][NextPrefs]_vars

(***************************************************************************)
(* The battery specification: past the monitor's startup delay             *)
(***************************************************************************)
BattTicks == 650

\* Stored preferences with the monitor and the alarm on, and with both off.
PrefsLow ==
  WithChecksum([DefaultPrefs EXCEPT !.ArmDelay = 2, !.DisarmDelay = 2,
                                    !.LowVoltageAlarmThreshold = 700])

PrefsNoBatt ==
  WithChecksum([DefaultPrefs EXCEPT !.ArmDelay = 2, !.DisarmDelay = 2,
                                    !.UseBattMon = 0, !.LowVoltageAlarm = 0])

\* What Battery::ComputeVoltage returns: a low and a healthy battery.
BattVolts == {600, 1200}

BattInputs ==
  {[Input(raw, LevelImu, NoSerial) EXCEPT !.volts = v] :
     raw \in LinkFrames, v \in BattVolts}

InitBatt ==
  \E p \in {PrefsLow, PrefsNoBatt} :
    \E gz \in GyroZeroOutcomes : InitWith(p, gz)

NextBatt ==
  \E in \in BattInputs : Tick(in, BattTicks)

SpecBatt ==
  InitBatt /\ [][NextBatt]_vars

(***************************************************************************)
(* FindGyroZero as Initialize() calls it                                   *)
(***************************************************************************)
\* 65 readings of one axis: all the same.
Steady(v) ==
  [i \in 0..WindowReads |-> v]

\* 65 readings of one axis: the first at v, then n at v - d and the rest at
\* v + d.
Shaken(v, d, n) ==
  [i \in 0..WindowReads |-> IF i = 0 THEN v ELSE IF i <= n THEN v - d ELSE v + d]

GyroWindowSeq ==
  << [X |-> Steady(12), Y |-> Steady(-7), Z |-> Steady(3)],
     [X |-> Shaken(12, 4, 16), Y |-> Steady(-7), Z |-> Steady(3)],
     [X |-> Steady(12), Y |-> Shaken(-7, 6, 16), Z |-> Steady(3)],
     [X |-> Shaken(12, 20, 48), Y |-> Steady(-7), Z |-> Shaken(3, 6, 16)],
     [X |-> Shaken(12, 80, 16), Y |-> Shaken(-7, 20, 48), Z |-> Steady(3)],
     [X |-> Steady(12), Y |-> Steady(-7), Z |-> Shaken(3, 6, 16)],
     [X |-> Steady(11), Y |-> Steady(-7), Z |-> Steady(3)] >>

GyroWindows ==
  {GyroWindowSeq[i] : i \in 1..Len(GyroWindowSeq)}

InitGyro ==
  \E p \in StoredPrefs :
    Booted(p, [X |-> 0, Y |-> 0, Z |-> 0]) /\ pc = "gyro" /\ mix = NoMix /\ call = NoCall

\* maxVar and avg[] as the pass computes them from the readings.
Reduced(w) ==
  [maxVar |-> WindowMaxVar(w), avg |-> WindowAvg(w)]

\* The reductions, each with the place of its window in GyroWindowSeq.
GyroReductions ==
  {[n |-> i, maxVar |-> Reduced(GyroWindowSeq[i]).maxVar,
    avg |-> Reduced(GyroWindowSeq[i]).avg] : i \in 1..Len(GyroWindowSeq)}

NextGyro ==
  \E r \in GyroReductions : GyroWindow(r)

SpecGyro ==
  InitGyro /\ [][NextGyro]_vars /\ WF_vars(NextGyro)

(***************************************************************************)
(* The X mixer by itself                                                   *)
(***************************************************************************)
\* PID outputs, ThroMix and ThroOut values the mixer is run on.
MixCommands == {-1000, -130, -5, -1, 0, 1, 3, 130, 1000}

MixInputs ==
  {[RollOut |-> r, PitchOut |-> p, YawOut |-> y, ThroMix |-> m, ThroOut |-> o] :
     r \in MixCommands, p \in {0, 7}, y \in {0, -3}, m \in {0, 1, 37, 64},
     o \in {8410, 12000, 15900}}

InitMix ==
  \E in \in MixInputs :
    Booted(PrefsA, [X |-> 0, Y |-> 0, Z |-> 0]) /\ pc = "mix" /\ mix = in /\ call = NoCall

NextMix ==
  MixStep

SpecMix ==
  InitMix /\ [][NextMix]_vars

(***************************************************************************)
(* IntPID::Calculate by itself, on each controller as Initialize() sets it  *)
(***************************************************************************)
\* Set point and measurement of a call: at rest, the set point beyond PIMax
\* either way, and the same with a step of the measurement.
PidCalls ==
  {<< 0, 0 >>, << 6000, 0 >>, << -6000, 0 >>, << 6000, 300 >>,
   << -6000, 300 >>}

InitPID ==
  \E n \in PIDNames :
    /\ Booted(PrefsA, [X |-> 0, Y |-> 0, Z |-> 0])
    /\ pc = "pid" /\ mix = NoMix /\ call = [n |-> n, out |-> 0]

NextPID ==
  \E c \in PidCalls : \E di \in {0, 1} : PidCall(c[1], c[2], di)

SpecPID ==
  InitPID /\ [][NextPID]_vars

(***************************************************************************)
(* The radio specification: receiver values over the whole range           *)
(***************************************************************************)
RadioTicks == 4

RawValues == {-1024, -1023, -513, -512, -1, 0, 1, 511, 512, 1024}

\* A receiver frame with v on the even channels and -v - 1 on the odd ones.
RadioFrames ==
  {[c \in Channels |-> IF c % 2 = 0 THEN v ELSE -v - 1] : v \in RawValues}

NextRadio ==
  \E raw \in RadioFrames : Tick(Input(raw, LevelImu, NoSerial), RadioTicks)

SpecRadio ==
  Init /\ [][NextRadio]_vars

(***************************************************************************)
(* The compass specification: the compass gesture held or released         *)
(***************************************************************************)
CompassTicks == 252

CompassFrames == {IdleFrame, CompassFrame}

NextCompass ==
  \E raw \in CompassFrames :
    Tick(Input(raw, LevelImu, NoSerial), CompassTicks)

SpecCompass ==
  Init /\ [][NextCompass]_vars

(***************************************************************************)
(* The pulse specification: heartbeats, then a silent ground station       *)
(***************************************************************************)
PulseRunTicks == 504

\* Heartbeats arrive only in the ticks with counter < HeartbeatTicks.
HeartbeatTicks == 2

Heartbeats == {Usb(MODE_SensorTest, << >>), XBee(MODE_SensorTest, << >>)}

HeartbeatTick ==
  /\ counter < HeartbeatTicks
  /\ \E ser \in Heartbeats :
       Tick(Input(IdleFrame, LevelImu, ser), PulseRunTicks)

SilentTick ==
  Tick(Input(IdleFrame, LevelImu, NoSerial), PulseRunTicks)

NextPulse ==
  \/ HeartbeatTick
  \/ SilentTick

SpecPulse ==
  Init /\ [][NextPulse]_vars

(***************************************************************************)
(* The mode specification: gear and throttle around their thresholds       *)
(***************************************************************************)
ModeTicks == 5

\* Sticks centred, the throttle at the edges of the hold deadband, the gear
\* switch at the edges of its three positions.
ModeFrames ==
  {ArmFrame, DisarmFrame}
    \cup {Frame(t, 0, 0, 0, g) :
            t \in {-101, -100, 0, 100, 101}, g \in {-513, -512, 0, 512, 513}}

NextMode ==
  \E raw \in ModeFrames : \E imu \in ImuSamples :
    Tick(Input(raw, imu, NoSerial), ModeTicks)

SpecMode ==
  Init /\ [][NextMode]_vars

(***************************************************************************)
(* The hold specification: altitude hold, with a one-tick disarm delay     *)
(***************************************************************************)
HoldTicks == 5

\* Stored preferences whose gestures complete on their first tick.
PrefsQuick ==
  WithChecksum([DefaultPrefs EXCEPT !.ArmDelay = 1, !.DisarmDelay = 1])

\* The disarm gesture with the gear switch centred.
CentredDisarmFrame == Frame(-1024, 1024, -1024, -1024, 0)

HoldFrames ==
  {ArmFrame, DisarmFrame, CentredDisarmFrame}
    \cup {Frame(th, 0, 0, 0, g) : th \in {0, 400}, g \in {0, 1024}}

InitHold ==
  \E p \in {PrefsA, PrefsQuick} :
    \E gz \in GyroZeroOutcomes : InitWith(p, gz)

NextHold ==
  \E raw \in HoldFrames : \E imu \in ImuSamples :
    Tick(Input(raw, imu, NoSerial), HoldTicks)

SpecHold ==
  InitHold /\ [][NextHold]_vars

(***************************************************************************)
(* The nudge specification: motor-test bytes on the radio modem            *)
(***************************************************************************)
NudgeTicks == 4

NudgeFrames == {IdleFrame, ArmFrame}

\* Heartbeats that select MODE_MotorTest on either port, and nudges (motor
\* 0, motors off) on the USB port.
NudgeSerial ==
  {NoSerial, Usb(MODE_MotorTest, << >>), XBee(MODE_MotorTest, << >>),
   Usb(8, << >>), Usb(15, << >>)}

LinkTick ==
  \E raw \in NudgeFrames : \E ser \in NudgeSerial :
    Tick(Input(raw, LevelImu, ser), NudgeTicks)

\* A tick in which a byte 0x08..0x0F arrives on the radio modem.
XBeeNudgeTick ==
  \E raw \in NudgeFrames : \E c \in 8..15 :
    Tick(Input(raw, LevelImu, XBee(c, << >>)), NudgeTicks)

NextNudge ==
  \/ LinkTick
  \/ XBeeNudgeTick

SpecNudge ==
  Init /\ [][NextNudge]_vars

(***************************************************************************)
(* The blocking specification: the loop runs, bytes arrive or do not       *)
(***************************************************************************)
BlockTicks == 8

\* Heartbeats on the USB port and the nudges for motor 0 and for the ESC
\* calibration.
BlockSerial ==
  {NoSerial, Usb(MODE_MotorTest, << >>), Usb(MODE_SensorTest, << >>),
   Usb(8, << >>), Usb(14, << >>)}

LoopTick ==
  \E raw \in {IdleFrame, ArmFrame} : \E ser \in BlockSerial :
    Tick(Input(raw, LevelImu, ser), BlockTicks)

NextBlock ==
  \/ LoopTick
  \/ \E b \in {255, 0} : EscByte1(b)
  \/ EscByte2

\* A step of the loop that reaches the end-of-tick waitcnt.
TickDone ==
  pc = "loop" /\ counter < BlockTicks /\ counter' = counter + 1

\* The processor always runs the loop, so a tick that can reach its end is
\* not postponed for ever; whether the ground station sends the bytes
\* S4_Get(0) waits for is up to the ground station.
SpecBlock ==
  Init /\ [][NextBlock]_vars /\ WF_counter(TickDone)

(***************************************************************************)
(* Properties                                                              *)
(***************************************************************************)
Logged(e) ==
  \E k \in 1..Len(events) : events[k] = e

\* e1 is logged, and before every later e2.
LoggedBefore(e1, e2) ==
  \E k \in 1..Len(events) :
    /\ events[k] = e1
    /\ \A j \in 1..Len(events) : events[j] = e2 => k < j

InMotorRange(p, v) ==
  p.MinThrottleArmed <= v /\ v <= p.MaxThrottle

\* The armed control path (rates, PIDs, mixer, clamp) ran in the last tick.
MixerRan ==
  DoIntegrate # -1

\* C1 as stated: at the end of every tick with FlightEnabled = 1 each motor
\* output lies in [MinThrottleArmed, MaxThrottle].
C1_MotorsInRangeWhileArmed ==
  (pc = "loop" /\ FlightEnabled = 1) =>
     \A i \in Motors : InMotorRange(Prefs, Motor[i])

\* C1 amended: a tick that starts armed and does not disarm leaves each motor
\* output in [MinThrottleArmed, MaxThrottle] of the preferences the clamp used
\* (with MinThrottleArmed <= MaxThrottle); the arming tick itself does not
\* recompute the outputs.
C1_ArmedTickClamps ==
  [][(pc = "loop" /\ FlightEnabled = 1 /\ FlightEnabled' = 1
        /\ Prefs.MinThrottleArmed <= Prefs.MaxThrottle)
       => /\ MixerRan'
          /\ \A i \in Motors : InMotorRange(Prefs, Motor'[i])]_vars

\* C1 witness: the mixer ran and the clamp cut an output at MaxThrottle.
C1_Witness ==
  /\ pc = "loop" /\ FlightEnabled = 1 /\ MixerRan
  /\ \E i \in Motors : Motor[i] = Prefs.MaxThrottle

\* C3: while disarmed, arming happens only on the ArmDelay-th consecutive
\* tick of the arming gesture: FlightEnableStep counts the consecutive ticks
\* of the gesture, a tick without it puts the count back to 0, and the
\* transition is taken exactly when the count reaches Prefs.ArmDelay.
C3_ArmOnlyAfterArmDelay ==
  [][(pc = "loop" /\ FlightEnabled = 0)
       => /\ FlightEnabled' = 1 =>
               ArmGesture(Radio') /\ FlightEnableStep + 1 = Prefs.ArmDelay
          /\ ~ArmGesture(Radio') => FlightEnableStep' = 0
          /\ (ArmGesture(Radio') /\ FlightEnabled' = 0) =>
               /\ FlightEnableStep' = FlightEnableStep + 1
               /\ FlightEnableStep' < Prefs.ArmDelay]_vars

\* C3 witness: the tick that armed, after a hold that was broken once.
C3_Witness ==
  /\ FlightEnabled = 1 /\ Logged("FindGyroZero")
  /\ counter > Prefs.ArmDelay

\* C4: while armed, disarming happens only on the DisarmDelay-th consecutive
\* tick of the disarming gesture; a tick without it puts FlightEnableStep
\* back to 0; nothing else disarms.
C4_DisarmOnlyAfterDisarmDelay ==
  [][(pc = "loop" /\ FlightEnabled = 1)
       => /\ FlightEnabled' = 0 =>
               /\ DisarmGesture(Radio')
               /\ FlightEnableStep + 1 = Prefs.DisarmDelay
               /\ Logged("Beep3")'
          /\ ~DisarmGesture(Radio') => FlightEnableStep' = 0
          /\ (DisarmGesture(Radio') /\ FlightEnabled' = 1) =>
               /\ FlightEnableStep' = FlightEnableStep + 1
               /\ FlightEnableStep' < Prefs.DisarmDelay]_vars

\* C4 witness: the tick that disarmed.
C4_Witness ==
  /\ FlightEnabled = 0 /\ Logged("Beep3") /\ DisarmGesture(Radio)

\* C5: on an armed tick with Radio.Thro < -800 every PID evaluation of the
\* tick is made with integration disabled, and no integral accumulator grows
\* in magnitude.
C5_NoIntegrationAtZeroThrottle ==
  [][(pc = "loop" /\ FlightEnabled = 1 /\ Thro(Radio') < -800)
       => /\ \A n \in PIDNames : ~Logged("Calc1." \o n)'
          /\ MixerRan' => /\ DoIntegrate' = 0
                          /\ Logged("Calc0.Roll")' /\ Logged("Calc0.Pitch")'
                          /\ Logged("Calc0.Yaw")'
                          /\ FlightMode' = FlightMode_Automatic
                               => Logged("Calc0.Ascent")'
          /\ \A n \in PIDNames : abs(pid'[n].IError) <= abs(pid[n].IError)]_vars

\* C5 witness: an Automatic tick at zero throttle that evaluated the PIDs
\* while an integral had already accumulated.
C5_Witness ==
  /\ FlightEnabled = 1 /\ DoIntegrate = 0
  /\ FlightMode = FlightMode_Automatic /\ Logged("Calc0.Ascent")
  /\ \E n \in PIDNames : pid[n].IError # 0

\* C6: on a tick whose gear position selects Automatic while FlightMode was
\* another mode, DesiredAltitude is set in that tick to AltiEst (the estimate
\* the loop holds when it arbitrates the mode), armed or not.
C6_AutomaticEntrySetsAltitude ==
  [][(pc = "loop" /\ FlightMode # FlightMode_CalibrateCompass
        /\ FlightMode # FlightMode_Automatic
        /\ NewFlightMode(Radio') = FlightMode_Automatic)
       => /\ FlightMode' = FlightMode_Automatic
          /\ DesiredAltitude' = AltiEst]_vars

\* C6 witness: Automatic was entered while disarmed, with a non-zero estimate
\* that differs from the one read at the end of the tick.
C6_Witness ==
  /\ FlightMode = FlightMode_Automatic /\ Logged("ResetDesiredYaw")
  /\ FlightEnabled = 0
  /\ DesiredAltitude # 0 /\ DesiredAltitude # AltiEst

\* IsHolding as the hold logic of this tick finds it.
HoldingOnEntry ==
  IF NewFlightMode(Radio') # FlightMode THEN 0 ELSE IsHolding

\* C7: armed, Automatic, throttle inside the deadband, not holding on entry:
\* within the tick IsHolding becomes 1, DesiredAltitude is AltiEst, and the
\* Altitude PID's integral is reset before the PID is evaluated.
C7_HoldEntry ==
  [][(pc = "loop" /\ FlightEnabled = 1
        /\ FlightMode # FlightMode_CalibrateCompass
        /\ NewFlightMode(Radio') = FlightMode_Automatic
        /\ abs(Thro(Radio')) <= AltiThrottleDeadband
        /\ HoldingOnEntry = 0)
       => /\ IsHolding' = 1
          /\ DesiredAltitude' = AltiEst
          /\ LoggedBefore("Reset.Alt", "Calc1.Alt")'
          /\ Logged("Calc1.Alt")'
          /\ pid'.Alt.IError = 0]_vars

\* C7 witness: hold was entered on the fifth tick, after armed ticks outside
\* the deadband.
C7_Witness ==
  /\ FlightEnabled = 1 /\ IsHolding = 1 /\ Logged("Reset.Alt")
  /\ counter > 4

AllAt(v) ==
  [i \in Motors |-> v]

BaseOutputs(out) ==
  IF FlightEnabled = 1 THEN AllAt(Prefs.MinThrottle) ELSE out

C8_BadChecksumUploadRejected ==
  [][(pc = "loop" /\ Logged("Receive")' /\ ~ChecksumMatches(TempPrefs'))
       => /\ Prefs' = Prefs
          /\ eeprom' = eeprom
          /\ ~Logged("Copy")' /\ ~Logged("Prefs_Save")'
          /\ ~Logged("Beep2")' /\ ~Logged("ApplyPrefs")'
          /\ LoggedBefore("Receive", "Beep")' /\ Logged("Beep")']_vars

\* C8 witness: a record with a wrong byte was received and refused.
C8_Witness ==
  /\ Logged("Receive") /\ ~Logged("Timeout") /\ ~ChecksumMatches(TempPrefs)
  /\ Logged("Beep")

\* C9 as stated: a timed read that times out during an upload aborts it:
\* Prefs unchanged and the failure beep, whatever bytes arrive afterwards.
C9_TimeoutAbortsUpload ==
  [][(pc = "loop" /\ Logged("Timeout")')
       => (Prefs' = Prefs /\ Logged("Beep")' /\ ~Logged("Copy")')]_vars

Sent(id) ==
  \E k \in 1..Len(tx) : tx[k].id = id

\* The upload of this step carries the record the last query returned.
EchoReceived ==
  pc = "loop" /\ txPrefs # << >> /\ Logged("Receive")' /\ TempPrefs' = txPrefs

EchoAccepted ==
  /\ Logged("Verified")' /\ Logged("Beep2")'
  /\ PrefsBytes(Prefs') = txPrefs
  /\ eeprom' = txPrefs

\* C10 as stated: the record a query returns, uploaded unchanged, is accepted
\* and leaves Prefs equal to the Prefs before the query.
C10_RoundTripIsNoOp ==
  [][/\ (pc = "loop" /\ Sent(24)') =>
          (txPrefs' = PrefsBytes(Prefs') /\ Prefs' = Prefs)
     /\ EchoReceived => EchoAccepted]_vars

\* C10 amended: the query stamps Prefs.Checksum with the checksum of the
\* record and returns the stamped record; uploaded unchanged it is accepted,
\* and Prefs (and the stored blob) are then the record the query returned,
\* i.e. the Prefs before the query but for the refreshed Checksum field.
C10_RoundTripRestoresQueried ==
  [][/\ (pc = "loop" /\ Sent(24)') =>
          (txPrefs' = PrefsBytes(Prefs') /\ Prefs' = WithChecksum(Prefs))
     /\ EchoReceived => EchoAccepted]_vars

\* C10 witness: a round trip completed on a record whose checksum was stale
\* before the query (the channel calibration had been reset).
C10_Witness ==
  /\ txPrefs # << >> /\ TempPrefs = txPrefs /\ Logged("Verified")
  /\ PrefsBytes(Prefs) = txPrefs
  /\ Prefs \notin StoredPrefs /\ Prefs # WithChecksum(DefaultPrefs)

\* C11: FindGyroZero terminates after at most MaxTries passes, and when it
\* has returned either bestvar <= 2 or MaxTries passes were made.
C11_GyroZeroTerminates ==
  /\ [](fgz.TryCounter <= MaxTries)
  /\ [](pc = "loop" => (fgz.bestvar <= 2 \/ fgz.TryCounter = MaxTries))
  /\ <>(pc = "loop")

\* C11 witness: the loop gave up after MaxTries passes with all of them
\* above the threshold, and published the best averages seen.
C11_Witness ==
  /\ pc = "loop" /\ fgz.TryCounter = MaxTries /\ fgz.bestvar > 2
  /\ GyroZero = fgz.best /\ Logged("SetGyroZero")

\* The colour as a function of the five values.
LedFunction(mode, enabled, holding, low, cnt) ==
  IF low
  THEN IF (cnt \div 8) % 8 < 4 THEN LEDColorTable[mode + 1] ELSE "Orange"
  ELSE IF (cnt \div 8) % 16 < 3 \/ holding # 0
       THEN LEDColorTable[mode + 1]
       ELSE LEDArmDisarm[enabled + 1]

LowBattNow ==
  /\ Prefs.UseBattMon # 0
  /\ BatteryVolts < Prefs.LowVoltageAlarmThreshold /\ BatteryVolts > 200

ShownColour ==
  IF Prefs.UseBattMon # 0 /\ BatteryMonitorDelay > 0 THEN "Blue"
  ELSE IF FlightEnabled = 0 /\ ArmGesture(Radio') THEN "HalfYellow"
  ELSE IF FlightEnabled = 0 /\ CompassGesture(Radio') THEN "HalfViolet"
  ELSE IF FlightEnabled = 1 /\ DisarmGesture(Radio') THEN "HalfYellow"
  ELSE LedFunction(FlightMode', FlightEnabled,
                   IF FlightMode' # FlightMode THEN 0 ELSE IsHolding,
                   LowBattNow, counter)

DisarmCompletes ==
  DisarmGesture(Radio') /\ FlightEnableStep + 1 >= Prefs.DisarmDelay

\* C13 as stated: on an armed tick on which Radio.Thro drops below -800
\* integration is disabled, FlightEnabled is still 1 at the end of the tick,
\* and every motor output is >= Prefs.MinThrottleArmed.
C13_ThrottleKillStaysArmed ==
  [][(pc = "loop" /\ FlightEnabled = 1 /\ counter > 0
        /\ Thro(Radio) >= -800 /\ Thro(Radio') < -800)
       => /\ DoIntegrate' = 0
          /\ FlightEnabled' = 1
          /\ \A i \in Motors : Motor'[i] >= Prefs.MinThrottleArmed]_vars

\* C13 amended: the same on every armed tick with Radio.Thro < -800, unless
\* the tick completes the disarm gesture (whose throttle condition, below
\* -750, such a tick meets); then the craft disarms and the outputs go to
\* MinThrottle.
C13_ThrottleKillUnlessDisarm ==
  [][(pc = "loop" /\ FlightEnabled = 1 /\ Thro(Radio') < -800
        /\ Prefs.MinThrottleArmed <= Prefs.MaxThrottle)
       => IF DisarmCompletes
          THEN /\ FlightEnabled' = 0
               /\ Motor' = [i \in Motors |-> Prefs.MinThrottle]
          ELSE /\ DoIntegrate' = 0
               /\ FlightEnabled' = 1
               /\ \A i \in Motors : Motor'[i] >= Prefs.MinThrottleArmed]_vars

\* C13 witness: throttle cut on an armed tick after a tick of altitude hold;
\* the craft is still armed, with the outputs raised to MinThrottleArmed.
C13_Witness ==
  /\ pc = "loop" /\ FlightEnabled = 1 /\ DoIntegrate = 0
  /\ Thro(Radio) < -800 /\ ~SticksDown(Radio)
  /\ pid.Alt.IError # 0
  /\ \A i \in Motors : Motor[i] = Prefs.MinThrottleArmed

\* The mixer ran on a pure roll command and no output was clamped.
PureRollUnclamped ==
  /\ pc = "mixed" /\ mix.PitchOut = 0 /\ mix.YawOut = 0
  /\ \A i \in Motors :
       Prefs.MinThrottleArmed < Motor[i] /\ Motor[i] < Prefs.MaxThrottle

\* C14 as stated: on a pure roll command without clamping, FL and BL are
\* ThroOut + d and FR and BR are ThroOut - d for one and the same d.
C14_PureRollSymmetric ==
  PureRollUnclamped =>
     \E d \in -1000..1000 :
       /\ Motor[OUT_FL] = mix.ThroOut + d /\ Motor[OUT_BL] = mix.ThroOut + d
       /\ Motor[OUT_FR] = mix.ThroOut - d /\ Motor[OUT_BR] = mix.ThroOut - d

\* C14 amended: FL and BL are ThroOut + floor(R*m / 128), FR and BR are
\* ThroOut + floor(-R*m / 128); the two offsets are opposite when R*m is a
\* multiple of 128 (R = 1000, m = 64: +500 / -500) and otherwise the
\* decrease is one more than the increase; with R = 0 all four are ThroOut.
C14_PureRollShifted ==
  PureRollUnclamped =>
     /\ Motor[OUT_FL] = mix.ThroOut + ((mix.RollOut * mix.ThroMix) \div 128)
     /\ Motor[OUT_BL] = Motor[OUT_FL]
     /\ Motor[OUT_FR] = mix.ThroOut + ((-(mix.RollOut * mix.ThroMix)) \div 128)
     /\ Motor[OUT_BR] = Motor[OUT_FR]
     /\ (mix.RollOut * mix.ThroMix) % 128 = 0 =>
          Motor[OUT_FL] - mix.ThroOut = mix.ThroOut - Motor[OUT_FR]
     /\ (mix.RollOut * mix.ThroMix) % 128 # 0 =>
          mix.ThroOut - Motor[OUT_FR] = Motor[OUT_FL] - mix.ThroOut + 1
     /\ mix.RollOut = 0 => \A i \in Motors : Motor[i] = mix.ThroOut

\* C14 witness: R = 1000 at ThroMix = 64 and ThroOut = 12000 gives +500 on
\* the left motors and -500 on the right ones.
C14_Witness ==
  /\ PureRollUnclamped /\ mix.RollOut = 1000 /\ mix.ThroMix = 64
  /\ Motor[OUT_FL] = 12500 /\ Motor[OUT_BL] = 12500
  /\ Motor[OUT_FR] = 11500 /\ Motor[OUT_BR] = 11500

\* C15 as stated: with the monitor and the alarm enabled and the battery
\* voltage constant between 200 and the threshold, the buzzer is switched on
\* at every tick with counter mod 64 = 0 and switched off exactly 32 ticks
\* after it was switched on.
C15_AlarmOnFor32Ticks ==
  [][(pc = "loop" /\ Prefs.UseBattMon # 0 /\ Prefs.LowVoltageAlarm # 0
        /\ LowBattNow /\ BatteryVolts' = BatteryVolts)
       => /\ counter % 64 = 0 => buzzer' = 1
          /\ counter % 64 \in 1..31 => buzzer' = buzzer
          /\ counter % 64 = 32 => buzzer' = 0]_vars

\* The output limits as configured at initialization.
ConfiguredMaxOutput ==
  [Roll |-> 3000, Pitch |-> 3000, Yaw |-> 5000, Alt |-> 5000, Ascent |-> 4000]

\* C16: after every Calculate call, on every controller, the magnitude of
\* the integral accumulator is <= its MaxIntegral and the magnitude of the
\* value returned is <= its MaxOutput, 3000/3000/5000/5000/4000 as configured.
C16_PidBounded ==
  /\ \A n \in PIDNames : abs(pid[n].IError) <= pid[n].MaxIntegral
  /\ \A n \in PIDNames : pid[n].MaxOutput = ConfiguredMaxOutput[n]
  /\ pc = "pid" => abs(call.out) <= ConfiguredMaxOutput[call.n]

\* C16 witness: a call that returned a limited output while the integral
\* stood at its limit.
C16_Witness ==
  /\ pc = "pid" /\ Logged("Calc1." \o call.n)
  /\ pid[call.n].IError = pid[call.n].MaxIntegral
  /\ call.out = ConfiguredMaxOutput[call.n]

IdentityMapping(p) ==
  \A i \in Channels :
    p.ChannelCenter[i] = 0 /\ p.ChannelScale[i] = 1024 /\ p.ChannelIndex[i] = i

\* C17: with ChannelCenter = 0, ChannelScale = 1024 and ChannelIndex the
\* identity, the scaled value of every channel computed in a tick equals the
\* raw value the tick read, negative values included.
C17_IdentityMappingKeepsRaw ==
  [][(pc = "loop" /\ IdentityMapping(Prefs))
       => \A i \in Channels : Radio'[i] = rc'[i]]_vars

\* C17 witness: a frame with odd negative and positive values came through
\* the identity mapping unchanged.
C17_Witness ==
  /\ pc = "loop" /\ counter > 0 /\ IdentityMapping(Prefs)
  /\ Radio = rc /\ Radio[0] = -513 /\ Radio[1] = 512

\* C18: while disarmed, the tick that completes 250 consecutive ticks of
\* the compass gesture leaves FlightMode at CalibrateCompass.
C18_CompassHoldEntersCalibration ==
  (pc = "loop" /\ FlightEnabled = 0 /\ CompassConfigStep = CompassHoldTicks)
    => FlightMode = FlightMode_CalibrateCompass

\* C19: once 500 ticks have run from the last heartbeat, on whichever port
\* it arrived, the telemetry mode is MODE_None.
C19_PulseExpiresOnEitherPort ==
  (pc = "loop" /\ counter >= HeartbeatTicks - 1 + PulseTicks)
    => Mode = MODE_None

\* The steps of an upload up to the reload, each before the next.
UploadStepsInOrder ==
  /\ LoggedBefore("Receive", "Verified")
  /\ LoggedBefore("Verified", "Copy")
  /\ LoggedBefore("Copy", "Prefs_Save")
  /\ LoggedBefore("Prefs_Save", "Prefs_Load")

\* C20 as stated: the success beep of an upload comes only after the record
\* was received, verified, copied into Prefs, persisted, reloaded and
\* re-applied (ApplyPrefs), in this order.
C20_BeepAfterReapply ==
  (pc = "loop" /\ Logged("Receive") /\ Logged("Beep2"))
    => /\ UploadStepsInOrder
       /\ LoggedBefore("Prefs_Load", "ApplyPrefs")
       /\ LoggedBefore("ApplyPrefs", "Beep2")

\* C20 amended: the success beep of an upload comes only after the record
\* was received, verified, copied into Prefs, persisted and reloaded, in this
\* order; ApplyPrefs follows the beep within the same command.
C20_BeepAfterReload ==
  (pc = "loop" /\ Logged("Receive") /\ Logged("Beep2"))
    => /\ UploadStepsInOrder
       /\ LoggedBefore("Prefs_Load", "Beep2")
       /\ LoggedBefore("Beep2", "ApplyPrefs")

\* C20 witness: an upload was accepted, beeped and re-applied, and changed
\* the record in use.
C20_Witness ==
  /\ pc = "loop" /\ Logged("Receive") /\ Logged("Beep2")
  /\ Logged("ApplyPrefs") /\ Prefs = PrefsB /\ eeprom = PrefsBytes(PrefsB)

\* C21: at the end of every tick on which FlightMode is not CalibrateCompass,
\* FlightMode is Assisted if the tick's gear channel is above 512, Manual if
\* it is below -512, Automatic otherwise, armed or not.
C21_ModeFollowsGear ==
  (pc = "loop" /\ counter > 0 /\ FlightMode # FlightMode_CalibrateCompass)
    => FlightMode = (IF Radio[4] > 512 THEN FlightMode_Assisted
                     ELSE IF Radio[4] < -512 THEN FlightMode_Manual
                     ELSE FlightMode_Automatic)

\* C21 witness: armed, with the gear exactly on a threshold, in Automatic
\* after a tick in another mode changed it.
C21_Witness ==
  /\ pc = "loop" /\ counter > 0 /\ FlightEnabled = 1
  /\ Radio[4] = 512 /\ FlightMode = FlightMode_Automatic
  /\ Logged("ResetDesiredYaw")

\* C24: at the end of every tick, IsHolding = 1 implies that FlightMode is
\* Automatic and that the tick's throttle is inside the deadband.
C24_HoldingImpliesAutoDeadband ==
  (pc = "loop" /\ IsHolding = 1)
    => /\ FlightMode = FlightMode_Automatic
       /\ -100 <= Radio[0] /\ Radio[0] <= 100

ChannelsReset(p) ==
  \A i \in Channels : p.ChannelScale[i] = 1024 /\ p.ChannelCenter[i] = 0

\* C25 as stated: after the byte 0x13 is received on a serial port, every
\* ChannelScale is 1024 and every ChannelCenter is 0, whatever display mode
\* is selected.
C25_ResetInAnyMode ==
  [][ResetCommandTick => ChannelsReset(Prefs')]_vars

\* C25 amended: the byte 0x13 resets the eight channel calibrations when the
\* selected display mode is MODE_SensorTest; in any other mode it leaves
\* Prefs unchanged.
C25_ResetInSensorTestOnly ==
  [][ResetCommandTick
       => IF Mode = MODE_SensorTest
          THEN ChannelsReset(Prefs') /\ Logged("Beep2")'
          ELSE Prefs' = Prefs /\ ~Logged("Beep2")']_vars

\* C25 witness: the reset was taken on a record whose channels were
\* calibrated away from the defaults.
C25_Witness ==
  /\ pc = "loop" /\ Mode = MODE_SensorTest /\ Logged("Beep2")
  /\ ~Logged("Receive") /\ ChannelsReset(Prefs)
  /\ Prefs.MinThrottleArmed = PrefsB.MinThrottleArmed

\* What a tick leaves behind, the received byte aside.
TickOutcome(s) ==
  << s.Motor, s.Servo, s.NudgeMotor, s.Mode, s.UsbPulse, s.XBeePulse,
     s.Prefs, s.eeprom, s.tx, s.events, s.buzzer, s.LEDValue,
     s.FlightEnabled, s.FlightEnableStep, s.counter, s.pc >>

\* The tick just taken ended as it would have with no byte on either port.
AsWithoutByte ==
  \E s \in {LoopBody(Now, Input(rc', LevelImu, NoSerial))} :
    \E ph \in PhaseOutcomes(PulseCountdown(s)) :
      \E d \in {DoDebugModeOutput(s, ph)} :
        TickOutcome(IF d.pc = "loop" THEN EndTick(d) ELSE d)
          = << Motor', Servo', NudgeMotor', Mode', UsbPulse', XBeePulse',
               Prefs', eeprom', tx', events', buzzer', LEDValue',
               FlightEnabled', FlightEnableStep', counter', pc' >>

\* C22: a byte 0x08..0x0F received on the radio-modem port leaves NudgeMotor
\* as it was and starts no motor test: the tick ends as it would have with no
\* byte received, and while disarmed no motor or servo output changes.
C22_NudgeOnlyOverUsb ==
  [][(pc = "loop" /\ rx'.port = 1 /\ rx'.c \in 8..15)
       => /\ NudgeMotor' = NudgeMotor
          /\ AsWithoutByte
          /\ (FlightEnabled = 0 /\ FlightEnabled' = 0)
               => (Motor' = Motor /\ Servo' = Servo)]_vars

\* C22 witness: in motor-test mode over the radio modem, disarmed, a nudge
\* byte for motor 0 was received and nothing was started.
C22_Witness ==
  /\ pc = "loop" /\ rx = [port |-> 1, c |-> 8] /\ Mode = MODE_MotorTest
  /\ XBeePulse > 0 /\ FlightEnabled = 0 /\ NudgeMotor = -1
  /\ Servo = [i \in Motors |-> Prefs.MinThrottle]

\* C23: every tick of the main loop eventually reaches its end, whatever
\* bytes arrive or fail to arrive on the serial ports.
C23_EveryTickCompletes ==
  (pc # "loop") ~> (pc = "loop")

\* Whether an IMU job issued by the loop is outstanding after the first k
\* calls of the tick.
RECURSIVE JobOutstanding(_, _)
JobOutstanding(ev, k) ==
  IF k = 0 THEN FALSE
  ELSE IF ev[k] \in {"IMU.Update", "IMU.UpdateControls"} THEN TRUE
  ELSE IF ev[k] = "IMU.Wait" THEN FALSE
  ELSE JobOutstanding(ev, k - 1)

\* C26: in every tick the IMU values are read only after the Update and the
\* UpdateControls of that tick were issued, in this order, and never while a
\* job issued by the loop is outstanding.
C26_ReadsAfterBarrier ==
  (pc = "loop" /\ counter > 0)
    => /\ \E k \in 1..Len(events) : events[k] = "IMU.Read"
       /\ \A k \in 1..Len(events) :
            events[k] = "IMU.Read"
              => /\ ~JobOutstanding(events, k - 1)
                 /\ \E i \in 1..k : \E j \in i..k :
                      /\ events[i] = "IMU.Update"
                      /\ events[j] = "IMU.UpdateControls"

\* C26 witness: an armed tick that changed the flight mode, with its read.
C26_Witness ==
  /\ pc = "loop" /\ counter > 0 /\ FlightEnabled = 1
  /\ Logged("ResetDesiredOrientation") /\ Logged("IMU.Read")

\* The startup delay of the battery monitor, in ticks.
StartupDelay ==
  ((Const_UpdateRate * 2) \div 16) * 16

\* C27: with the battery monitor enabled from startup, the delay runs out
\* with the tick counter on a multiple of 16; from then on the discharge is
\* in the ticks with counter mod 16 = 0, the charge in those with 2, the read
\* in those with 15, and in no other tick, so that the first action is a
\* discharge and every read has the discharge and the charge of its own
\* 16-tick cycle before it.
C27_BatteryCycleOrder ==
  [][(pc = "loop" /\ Prefs.UseBattMon # 0)
       => /\ StartupDelay % 16 = 0
          /\ BatteryMonitorDelay
               = (IF counter < StartupDelay THEN StartupDelay - counter ELSE 0)
          /\ Logged("DischargePin")'
               <=> (counter >= StartupDelay /\ counter % 16 = 0)
          /\ Logged("ChargePin")'
               <=> (counter >= StartupDelay /\ counter % 16 = 2)
          /\ Logged("ReadResult")'
               <=> (counter >= StartupDelay /\ counter % 16 = 15)
          /\ Logged("ReadResult")'
               => (counter - 15 >= StartupDelay /\ (counter - 15) % 16 = 0)]_vars

\* C27 witness: the first voltage read after the delay has been taken.
C27_Witness ==
  /\ pc = "loop" /\ Prefs.UseBattMon # 0 /\ Logged("ReadResult")
  /\ counter = StartupDelay + 16 /\ BatteryVolts = 600

\* Sum of the 64 readings of the sampling loop (the first reading of a
\* window only seeds the minimum and the maximum).
RECURSIVE Sum64(_, _)
Sum64(r, i) ==
  IF i = 0 THEN 0 ELSE r[i] + Sum64(r, i - 1)

Lowest(r) ==
  CHOOSE v \in {r[i] : i \in 0..64} : \A i \in 0..64 : v <= r[i]

Highest(r) ==
  CHOOSE v \in {r[i] : i \in 0..64} : \A i \in 0..64 : v >= r[i]

\* sum/64 and (min+max)/2, as C divides.
Mean(r) ==
  LET n == Sum64(r, 64)
  IN  IF n >= 0 THEN n \div 64 ELSE -((-n) \div 64)

MidPoint(r) ==
  LET n == Lowest(r) + Highest(r)
  IN  IF n >= 0 THEN n \div 2 ELSE -((-n) \div 2)

Variation(r) ==
  LET d == MidPoint(r) - Mean(r) IN IF d < 0 THEN -d ELSE d

\* max over axes of |(min+max)/2 - mean|
Unrest(w) ==
  CHOOSE m \in {Variation(w[a]) : a \in {"X", "Y", "Z"}} :
    \A a \in {"X", "Y", "Z"} : m >= Variation(w[a])

\* The variation and the means of each window the run can read.
UnrestOf ==
  [i \in 1..Len(GyroWindowSeq) |-> Unrest(GyroWindowSeq[i])]

MeansOf ==
  [i \in 1..Len(GyroWindowSeq) |->
     [a \in {"X", "Y", "Z"} |-> Mean(GyroWindowSeq[i][a])]]

\* The earliest of the quietest windows read in the run.
Quietest ==
  CHOOSE k \in 1..Len(windows) :
    /\ \A j \in 1..Len(windows) :
         UnrestOf[windows[k]] <= UnrestOf[windows[j]]
    /\ \A j \in 1..(k - 1) : UnrestOf[windows[j]] > UnrestOf[windows[k]]

\* C28: the zeros FindGyroZero publishes are the per-axis means (sum/64) of
\* the quietest window read in the run, the earliest one on ties.
C28_ZerosAreQuietestMeans ==
  (pc = "loop" /\ Logged("SetGyroZero"))
    => /\ windows # << >>
       /\ GyroZero = MeansOf[windows[Quietest]]

\* C28 witness: the run read a window, then an equally quiet one with other
\* means, then noisier ones, and published the means of the first.
C28_Witness ==
  /\ pc = "loop" /\ Logged("SetGyroZero") /\ Len(windows) >= 3
  /\ Quietest = 1
  /\ UnrestOf[windows[2]] = UnrestOf[windows[1]]
  /\ MeansOf[windows[2]] # MeansOf[windows[1]]
  /\ UnrestOf[windows[1]] > 2

\* Bytes the next tick may take: none, every display mode on either port, a
\* nudge, the channel reset, the ping.
ProbeSerial ==
  {NoSerial}
    \cup {Usb(c, << >>) : c \in {0, 1, 2, 3, 8, 19, 255}}
    \cup {XBee(c, << >>) : c \in {0, 1, 2, 3, 8, 19, 255}}

\* C29: whatever byte the next tick takes, if DoDebugModeOutput gets past
\* 'if( Mode == MODE_None ) return' then UsbPulse > 0 or XBeePulse > 0 held
\* at the top of the call and the local phase has been assigned.
C29_PhaseAssignedBeforeUse ==
  pc = "loop"
    => \A ser \in ProbeSerial :
         \E s \in {CheckDebugInput(Now, ser)} :
           \E q \in {PulseCountdown(s)} :
             (~q.returned /\ q.Mode # MODE_None)
               => /\ s.UsbPulse > 0 \/ s.XBeePulse > 0
                  /\ q.phase # -1

\* C29 witness: telemetry went out on the radio modem while the USB timer
\* was below zero.
C29_Witness ==
  /\ pc = "loop" /\ Mode = MODE_SensorTest /\ UsbPulse < 0 /\ XBeePulse > 0
  /\ \E k \in 1..Len(tx) : tx[k].port = 1

====
